---------------------------- MODULE Spec2Model ----------------------------
(***************************************************************************)
(* A model of the 5G network problem diagnosis solver:                     *)
(*   src/src/data_parser.py   option / mapping / feature extraction        *)
(*   src/src/rule_engine.py   the two rule procedures                      *)
(*   src/src/ai_client.py     call_ai_api, extract_ai_answer,              *)
(*                            process_ai_task                              *)
(*   src/src/solver.py        Solver.run: rule loop, concurrent AI pass,   *)
(*                            retry rounds, result generation, checkpoint  *)
(*                                                                         *)
(* Conventions.  A question text is modelled by what the parsers read from *)
(* it: the marker substrings, the option-like lines (label + description)  *)
(* and the rows of its tables.  Real numbers are integers in tenths        *)
(* (T(40) is 40.0), except the CCE rate, which is in hundredths.           *)
(***************************************************************************)
EXTENDS Integers, Sequences, FiniteSets, TLC

T(x) == x * 10

SetMax(S) == CHOOSE x \in S : \A y \in S : y <= x
SetMin(S) == CHOOSE x \in S : \A y \in S : x <= y

RECURSIVE SeqSum(_)
SeqSum(s) == IF s = << >> THEN 0 ELSE Head(s) + SeqSum(Tail(s))

Range(s) == { s[k] : k \in 1..Len(s) }

\* dict.get(key, default)
Get(d, key, default) == IF key \in DOMAIN d THEN d[key] ELSE default

\* the empty dict
EmptyMap == [x \in {} |-> x]

(***************************************************************************)
(* Option labels.  LabelOrder lists the labels of the model in Python's    *)
(* string order (digits before upper-case letters, "A" < "A1" < "B").      *)
(***************************************************************************)
Letters  == <<"A", "B", "C", "D", "E", "F", "G", "H", "I">>
Digits   == <<"1", "2", "3", "4", "5", "6", "7", "8">>
Prefixed == <<"A1", "B2">>

LabelOrder ==
    <<"1", "2", "3", "4", "5", "6", "7", "8",
      "A", "A1", "B", "B2", "C", "D", "E", "F", "G", "H", "I">>

Labels == Range(LabelOrder)

Rank(l) == CHOOSE k \in 1..Len(LabelOrder) : LabelOrder[k] = l

\* sorted(S) for a set of labels
RECURSIVE Sorted(_)
Sorted(S) ==
    IF S = {} THEN << >>
    ELSE LET m == CHOOSE x \in S : \A y \in S : Rank(x) <= Rank(y)
         IN  <<m>> \o Sorted(S \ {m})

\* list of the elements of s in first-occurrence order (the seen-set loops)
RECURSIVE Dedup(_, _)
Dedup(s, seen) ==
    IF s = << >> THEN << >>
    ELSE IF Head(s) \in seen THEN Dedup(Tail(s), seen)
         ELSE <<Head(s)>> \o Dedup(Tail(s), seen \cup {Head(s)})

SelectIds(lines, P(_)) ==
    LET sel == SelectSeq(lines, P)
    IN  [k \in 1..Len(sel) |-> sel[k].id]

\* the three label formats the regular expressions tell apart
IsPrefixLabel(l) == l \in Range(Prefixed)
IsNumLabel(l)    == l \in Range(Digits)
IsLetterLabel(l) == l \in Range(Letters)

(***************************************************************************)
(* Descriptions.  A description is modelled by its wording class; the      *)
(* tables below give, for each class, the cause types whose keywords are   *)
(* substrings of the lower-cased wording.  "" is the empty description     *)
(* (the mapping regex needs at least one character after the colon).       *)
(***************************************************************************)
Descs ==
    {"", "other",
     "downtilt too large, weak coverage at the far end",
     "coverage distance exceeds 1km, over-shooting",
     "neighboring cell provides higher throughput",
     "severe overlapping coverage",
     "frequent handovers degrade performance",
     "same pci mod 30",
     "test vehicle speed exceeds 40km/h",
     "average scheduled rbs are below 160",
     "rf parameters lead to weak coverage",
     "intra-frequency handover threshold is too low",
     "pdcch resource management parameters unreasonable",
     "missing neighbor configuration",
     "test server or transport anomaly",
     "intra-frequency handover threshold is too high"}

\* ROOT_CAUSE_KEYWORDS and NONSTANDARD_KEYWORDS hits of a description
KeywordHits(desc) ==
    CASE desc = "downtilt too large, weak coverage at the far end"
            -> {"weak_coverage", "weak_coverage_rf"}
      [] desc = "coverage distance exceeds 1km, over-shooting"
            -> {"overshoot"}
      [] desc = "neighboring cell provides higher throughput"
            -> {"neighbor_higher"}
      [] desc = "severe overlapping coverage"
            -> {"overlap", "overlap_rf"}
      [] desc = "frequent handovers degrade performance"
            -> {"handover", "threshold_low"}
      [] desc = "same pci mod 30"
            -> {"pci_conflict"}
      [] desc = "test vehicle speed exceeds 40km/h"
            -> {"high_speed"}
      [] desc = "average scheduled rbs are below 160"
            -> {"low_rb"}
      [] desc = "rf parameters lead to weak coverage"
            -> {"weak_coverage_rf"}
      [] desc = "intra-frequency handover threshold is too low"
            -> {"threshold_low"}
      [] desc = "pdcch resource management parameters unreasonable"
            -> {"pdcch"}
      [] desc = "missing neighbor configuration"
            -> {"neighbor_missing"}
      [] desc = "test server or transport anomaly"
            -> {"transport_anomaly"}
      [] desc = "intra-frequency handover threshold is too high"
            -> {"threshold_high"}
      [] OTHER -> {}

\* CAUSE_KEYWORDS (C1..C8) hits of a description
CauseCodeHits(desc) ==
    CASE desc = "downtilt too large, weak coverage at the far end" -> {"C1"}
      [] desc = "rf parameters lead to weak coverage"              -> {"C1"}
      [] desc = "coverage distance exceeds 1km, over-shooting"     -> {"C2"}
      [] desc = "neighboring cell provides higher throughput"      -> {"C3"}
      [] desc = "severe overlapping coverage"                      -> {"C4"}
      [] desc = "frequent handovers degrade performance"           -> {"C5"}
      [] desc = "same pci mod 30"                                  -> {"C6"}
      [] desc = "test vehicle speed exceeds 40km/h"                -> {"C7"}
      [] desc = "average scheduled rbs are below 160"              -> {"C8"}
      [] OTHER -> {}

(***************************************************************************)
(* data_parser.py                                                          *)
(***************************************************************************)
is_standard_question(question) == question.std_header

is_nonstandard_telecom_question(question) ==
    question.telecom_kw /\ ~is_standard_question(question)

get_question_type(question) ==
    IF is_standard_question(question) THEN "standard"
    ELSE IF is_nonstandard_telecom_question(question) THEN "nonstandard_telecom"
    ELSE "nonstandard_other"

LinePrefix(ln) == IsPrefixLabel(ln.id)
LineNum(ln)    == IsNumLabel(ln.id)
LineLetter(ln) == IsLetterLabel(ln.id)

DefaultOptions == Digits

extract_options_from_question(question) ==
    LET prefix_options == SelectIds(question.lines, LinePrefix)
        num_options    == SelectIds(question.lines, LineNum)
        letter_options == SelectIds(question.lines, LineLetter)
    IN  IF prefix_options # << >> THEN Dedup(prefix_options, {})
        ELSE IF num_options # << >> THEN Dedup(num_options, {})
        ELSE IF letter_options # << >> THEN Sorted(Range(letter_options))
        ELSE DefaultOptions

\* a line the mapping regex ^([A-Z]?\d+|[A-I])\s*:\s*(.+)$ matches
MappingLine(ln) == ln.desc # ""

\* the dict built by "mapping[cause] = option_id" over the lines in order:
\* the last line that hits a cause wins
LastWins(lines, Hits(_)) ==
    LET hit(c) == { k \in 1..Len(lines) : MappingLine(lines[k]) /\ c \in Hits(lines[k].desc) }
        keys   == UNION { Hits(lines[k].desc) : k \in { j \in 1..Len(lines) : MappingLine(lines[j]) } }
    IN  [c \in keys |-> lines[SetMax(hit(c))].id]

extract_option_mapping(question) == LastWins(question.lines, KeywordHits)

\* the first component of get_cause_to_option_reverse_map
get_cause_to_option_reverse_map(question) == LastWins(question.lines, CauseCodeHits)


(***************************************************************************)
(* extract_features.  question.dt_records and question.eng_records are the *)
(* records parse_drive_test_data returns: one function per row, from the   *)
(* columns the header has to the cell.  A cell is <<v>> when float()/int() *)
(* accepts it as v and << >> when the conversion raises; a column the      *)
(* header lacks is absent from the row, and r.get supplies its default.    *)
(* A Features value is a function from field names; "no features" (None)   *)
(* is NoFeatures.                                                          *)
(***************************************************************************)
NoFeatures == [none |-> TRUE]

IsNone(features) == "none" \in DOMAIN features

\* if features:  (neither None nor an empty dict)
Truthy(features) == ~IsNone(features) /\ DOMAIN features # {}

\* the values the conversions accepted, in row order (try: append / except: pass)
Parsed(records, col, default) ==
    LET cells == [k \in 1..Len(records) |-> Get(records[k], col, default)]
        ok    == SelectSeq(cells, LAMBDA c : c # << >>)
    IN  [k \in 1..Len(ok) |-> ok[k][1]]

CountChanges(s) == Cardinality({ k \in 2..Len(s) : s[k] # s[k-1] })

\* pci_to_eng[int(eng.get('PCI', -1))] = eng, the last row of a PCI wins
PciToEng(eng_records) ==
    LET key(k) == Get(eng_records[k], "pci", <<-1>>)
        rows   == { k \in 1..Len(eng_records) : key(k) # << >> }
    IN  [p \in { key(k)[1] : k \in rows } |->
            eng_records[SetMax({ k \in rows : key(k)[1] = p })]]

\* [md + dt] of one engineering row, or << >> when float() raises;
\* the digital tilt 255 stands for 6
TiltOf(eng) ==
    LET md == Get(eng, "md", <<0>>)
        dt == Get(eng, "dt", <<0>>)
    IN  IF md = << >> THEN << >>
        ELSE IF dt = <<T(255)>> THEN <<md[1] + T(6)>>
        ELSE IF dt = << >> THEN << >>
        ELSE <<md[1] + dt[1]>>

\* the list [f[p] : p in S] (its order does not matter to min, max and sum)
RECURSIVE ListOf(_, _)
ListOf(S, f) ==
    IF S = {} THEN << >>
    ELSE LET p == SetMin(S) IN <<f[p]>> \o ListOf(S \ {p}, f)

\* the tilts of the serving cells that have an engineering row
ServingTilts(serving_pcis, pci_to_eng) ==
    LET tilted == { p \in Range(serving_pcis) \cap DOMAIN pci_to_eng :
                       TiltOf(pci_to_eng[p]) # << >> }
    IN  ListOf(tilted, [p \in tilted |-> TiltOf(pci_to_eng[p])[1]])

\* the flag is never set
Mod30Clash_Never(pcis) == FALSE

\* two different identifiers with the same residue modulo 30
Mod30Clash(pcis) == \E a, b \in pcis : a # b /\ a % 30 = b % 30

\* the dict extract_features returns, from the lists it has collected
FeatureDict(speeds, serving_pcis, neighbor_top1_pcis, rbs, rsrps, tilts) ==
    [min_rsrp   |-> IF rsrps # << >> THEN SetMin(Range(rsrps)) ELSE T(-999),
     avg_rsrp   |-> IF rsrps # << >> THEN SeqSum(rsrps) \div Len(rsrps) ELSE T(-999),
     max_tilt   |-> IF tilts # << >> THEN SetMax(Range(tilts)) ELSE 0,
     min_tilt   |-> IF tilts # << >> THEN SetMin(Range(tilts)) ELSE T(999),
     total_tilt |-> SeqSum(tilts),
     handovers  |-> CountChanges(serving_pcis),
     num_neighbors |-> Cardinality(neighbor_top1_pcis),
     max_speed  |-> IF speeds # << >> THEN SetMax(Range(speeds)) ELSE 0,
     avg_rb     |-> IF rbs # << >> THEN SeqSum(rbs) \div Len(rbs) ELSE T(999),
     has_pci_conflict |-> Mod30Clash(Range(serving_pcis) \cup neighbor_top1_pcis)]

FeaturesOfRecords(dt_records, serving_pcis, pci_to_eng) ==
    FeatureDict(Parsed(dt_records, "speed", <<0>>),
                serving_pcis,
                Range(Parsed(dt_records, "n1", << >>)),
                Parsed(dt_records, "rb", <<T(200)>>),
                Parsed(dt_records, "rsrp", <<T(-80)>>),
                ServingTilts(serving_pcis, pci_to_eng))

extract_features(question) ==
    IF question.dt_records = << >> THEN NoFeatures
    ELSE FeaturesOfRecords(question.dt_records,
                           Parsed(question.dt_records, "pci", <<-1>>),
                           PciToEng(question.eng_records))

(***************************************************************************)
(* rule_engine.py                                                          *)
(***************************************************************************)
Min2(a, b) == IF a < b THEN a ELSE b

Rule(cause_type, confidence, rule_desc) ==
    [cause_type |-> cause_type, confidence |-> confidence, rule_desc |-> rule_desc]

\* rules 7-17 with the low confidence boundary rule 16 tried first
TiltAndCoverageRules_BoundaryFirst(features) ==
    LET min_tilt   == Get(features, "min_tilt", 0)
        total_tilt == Get(features, "total_tilt", 0)
    IN  IF min_tilt < T(10) \/ total_tilt <= T(35)
        THEN Rule("neighbor_higher", "low", "Rule 16")
        ELSE Rule("neighbor_higher", "low", "Rule 17")

\* rules 7-17 of the cascade: the tilt rules for C3, the RSRP floor and tilt
\* rules for C1, and the low confidence boundary rules
TiltAndCoverageRules(features) ==
    LET min_rsrp   == Get(features, "min_rsrp", T(-80))
        max_tilt   == Get(features, "max_tilt", 0)
        min_tilt   == Get(features, "min_tilt", 0)
        total_tilt == Get(features, "total_tilt", 0)
    IN  IF max_tilt < T(12)        THEN Rule("neighbor_higher", "high", "Rule 7")
        ELSE IF total_tilt < T(19) THEN Rule("neighbor_higher", "high", "Rule 8")
        ELSE IF min_tilt < T(6)    THEN Rule("neighbor_higher", "high", "Rule 9")
        ELSE IF min_tilt < T(10) /\ min_rsrp > T(-89)
                                   THEN Rule("neighbor_higher", "high", "Rule 10")
        ELSE IF min_rsrp < T(-90)  THEN Rule("weak_coverage", "high", "Rule 11")
        ELSE IF max_tilt > T(29)   THEN Rule("weak_coverage", "high", "Rule 12")
        ELSE IF total_tilt > T(52) THEN Rule("weak_coverage", "high", "Rule 13")
        ELSE IF min_tilt > T(25)   THEN Rule("weak_coverage", "high", "Rule 14")
        ELSE IF min_rsrp < -885 /\ total_tilt > T(39) /\ max_tilt >= T(22)
                                   THEN Rule("weak_coverage", "low", "Rule 15")
        ELSE IF min_tilt < T(10) \/ total_tilt <= T(35)
                                   THEN Rule("neighbor_higher", "low", "Rule 16")
        ELSE Rule("neighbor_higher", "low", "Rule 17")

\* StandardCascade with rules 1 and 2 in the wrong order
StandardCascade_HandoverFirst(features) ==
    LET num_neighbors == Get(features, "num_neighbors", 0)
        handovers     == Get(features, "handovers", 0)
        max_speed     == Get(features, "max_speed", 0)
        avg_rb        == Get(features, "avg_rb", T(200))
        has_pci_conflict == Get(features, "has_pci_conflict", FALSE)
    IN  IF ~Truthy(features) THEN Rule("neighbor_higher", "low", "Default C3")
        ELSE IF handovers >= 3     THEN Rule("handover", "high", "Rule 2")
        ELSE IF num_neighbors >= 3 THEN Rule("overlap", "high", "Rule 1")
        ELSE IF handovers = 2      THEN Rule("overshoot", "high", "Rule 3")
        ELSE IF max_speed > T(40)  THEN Rule("high_speed", "high", "Rule 4")
        ELSE IF avg_rb < T(170)    THEN Rule("low_rb", "high", "Rule 5")
        ELSE IF has_pci_conflict   THEN Rule("pci_conflict", "high", "Rule 6")
        ELSE TiltAndCoverageRules(features)

\* the ordered cascade of solve_standard_question_with_confidence (lines
\* 20-109); the first predicate that matches wins
StandardCascade(features) ==
    LET num_neighbors == Get(features, "num_neighbors", 0)
        handovers     == Get(features, "handovers", 0)
        max_speed     == Get(features, "max_speed", 0)
        avg_rb        == Get(features, "avg_rb", T(200))
        has_pci_conflict == Get(features, "has_pci_conflict", FALSE)
    IN  IF ~Truthy(features) THEN Rule("neighbor_higher", "low", "Default C3")
        ELSE IF num_neighbors >= 3 THEN Rule("overlap", "high", "Rule 1")
        ELSE IF handovers >= 3     THEN Rule("handover", "high", "Rule 2")
        ELSE IF handovers = 2      THEN Rule("overshoot", "high", "Rule 3")
        ELSE IF max_speed > T(40)  THEN Rule("high_speed", "high", "Rule 4")
        ELSE IF avg_rb < T(170)    THEN Rule("low_rb", "high", "Rule 5")
        ELSE IF has_pci_conflict   THEN Rule("pci_conflict", "high", "Rule 6")
        ELSE TiltAndCoverageRules(features)

\* backup_mappings[cause_type], in list order
BackupMappings(cause_type) ==
    CASE cause_type = "neighbor_higher" -> <<"overlap", "neighbor_higher">>
      [] cause_type = "overlap"         -> <<"neighbor_higher", "overlap">>
      [] OTHER                          -> << >>

\* the "Get answer" block of solve_standard_question_with_confidence
StandardAnswer(cause_type, option_mapping, default_options) ==
    LET backups == SelectSeq(BackupMappings(cause_type),
                             LAMBDA b : b \in DOMAIN option_mapping)
    IN  IF cause_type \in DOMAIN option_mapping THEN option_mapping[cause_type]
        ELSE IF backups # << >> THEN option_mapping[Head(backups)]
        ELSE IF default_options # << >>
             THEN default_options[Min2(2, Len(default_options) - 1) + 1]
        ELSE "3"

\* the tuple (answer, confidence, cause_type, rule_desc) of the rule r
StandardResult(r, option_mapping, default_options) ==
    [answer     |-> StandardAnswer(r.cause_type, option_mapping, default_options),
     confidence |-> r.confidence,
     cause_type |-> r.cause_type,
     rule_desc  |-> r.rule_desc]

solve_standard_question_with_confidence(features, option_mapping, default_options) ==
    StandardResult(StandardCascade(features), option_mapping, default_options)

(***************************************************************************)
(* solve_nonstandard_telecom_with_confidence.  question.nt_rows are the    *)
(* data rows of the loosely detected table: functions from the columns     *)
(* "rsrp", "sinr", "cce", "pci" that the header has to cells.  RSRP and    *)
(* SINR are in tenths, the CCE fail rate in hundredths.                    *)
(***************************************************************************)
\* values appended for a column: rows lacking it or failing to convert add none
NtParsed(rows, col) ==
    LET has == SelectSeq(rows, LAMBDA r : col \in DOMAIN r /\ r[col] # << >>)
    IN  [k \in 1..Len(has) |-> has[k][col][1]]

NtFeatureDict(rsrps, sinrs, cces, pcis) ==
    [min_rsrp  |-> IF rsrps # << >> THEN SetMin(Range(rsrps)) ELSE T(-100),
     sinr_sum  |-> SeqSum(sinrs),
     sinr_n    |-> Len(sinrs),
     max_cce   |-> IF cces # << >> THEN SetMax(Range(cces)) ELSE 0,
     handovers |-> CountChanges(pcis)]

NtFeatures(question) ==
    NtFeatureDict(NtParsed(question.nt_rows, "rsrp"), NtParsed(question.nt_rows, "sinr"),
                  NtParsed(question.nt_rows, "cce"), NtParsed(question.nt_rows, "pci"))

\* mean_sinr > t, with mean_sinr = sum / len, or 0 when no value parsed
MeanSinrGt(f, t) == IF f.sinr_n > 0 THEN f.sinr_sum > T(t) * f.sinr_n ELSE 0 > t

\* the three high confidence rules, or "none"
NonstandardHigh(f) ==
    IF f.min_rsrp < T(-100)  THEN Rule("weak_coverage_rf", "high", "Rule 1")
    ELSE IF f.handovers >= 3 THEN Rule("threshold_low", "high", "Rule 2")
    ELSE IF f.max_cce > 40   THEN Rule("pdcch", "high", "Rule 3")
    ELSE Rule("weak_coverage_rf", "low", "Low Confidence")

\* an elimination that rules out the three high confidence causes only
ExcludedCauses_NoDynamic(f) == {"weak_coverage_rf", "threshold_low", "pdcch"}

\* excluded_causes of the elimination method
ExcludedCauses(f) ==
    {"weak_coverage_rf", "threshold_low", "pdcch"}
    \cup (IF f.handovers > 0 THEN {"neighbor_missing"} ELSE {})
    \cup (IF MeanSinrGt(f, 12) THEN {"overlap", "overlap_rf"} ELSE {})
    \cup (IF MeanSinrGt(f, 8) THEN {"transport_anomaly", "uplink_issue"} ELSE {})

\* the "Get answer" block of solve_nonstandard_telecom_with_confidence
NonstandardAnswer(cause_type, option_mapping, default_options) ==
    IF cause_type \in DOMAIN option_mapping THEN option_mapping[cause_type]
    ELSE IF "weak_coverage_rf" \in DOMAIN option_mapping
         THEN option_mapping["weak_coverage_rf"]
    ELSE IF default_options # << >>
         THEN default_options[Min2(5, Len(default_options) - 1) + 1]
    ELSE "F"

\* excluded_options: the options the excluded causes map to; the elimination
\* runs only when no high confidence rule fired
ExcludedOptions(f, r, option_mapping) ==
    IF r.confidence # "high"
    THEN { option_mapping[c] : c \in ExcludedCauses(f) \cap DOMAIN option_mapping }
    ELSE {}

NonstandardResult(f, r, option_mapping, default_options) ==
    [answer     |-> NonstandardAnswer(r.cause_type, option_mapping, default_options),
     confidence |-> r.confidence,
     cause_type |-> r.cause_type,
     excluded_options |-> ExcludedOptions(f, r, option_mapping),
     features   |-> f,
     rule_desc  |-> r.rule_desc]

NonstandardDecide(f, option_mapping, default_options) ==
    NonstandardResult(f, NonstandardHigh(f), option_mapping, default_options)

solve_nonstandard_telecom_with_confidence(question, option_mapping, default_options) ==
    NonstandardDecide(NtFeatures(question), option_mapping, default_options)

\* format_answer: the sentence around \boxed{answer} is constant
format_answer(answer) == <<"boxed", answer>>

(***************************************************************************)
(* ai_client.py: extract_ai_answer.  An oracle response text is modelled   *)
(* by what the ladder reads from it:                                       *)
(*   strip     the whole stripped text when it is one bare label, else ""  *)
(*   captures  group(1) of each pattern of the list that matches, in       *)
(*             pattern order                                               *)
(*   first     the label-like characters the first line begins with        *)
(*   words     the labels that occur in the text between word boundaries   *)
(* and EmptyResponse is the empty text or None.                            *)
(***************************************************************************)
Chars(l) ==
    CASE l = "A1" -> <<"A", "1">>
      [] l = "B2" -> <<"B", "2">>
      [] l = ""   -> << >>
      [] OTHER    -> <<l>>

\* a in b, for two label strings
IsSub(a, b) ==
    LET ca == Chars(a)
        cb == Chars(b)
    IN  \E k \in 0..(Len(cb) - Len(ca)) : \A j \in 1..Len(ca) : cb[k + j] = ca[j]

\* text.startswith(opt)
StartsWith(text, opt) ==
    LET ct == Chars(text)
        co == Chars(opt)
    IN  Len(co) <= Len(ct) /\ \A j \in 1..Len(co) : ct[j] = co[j]

EmptyResponse == [strip |-> "", captures |-> << >>, first |-> "", words |-> {}, empty |-> TRUE]

Text(strip, captures, first, words) ==
    [strip |-> strip, captures |-> captures, first |-> first, words |-> words, empty |-> FALSE]

\* valid_options[0] if valid_options else "1"
FirstValid(valid_options) == IF valid_options # << >> THEN Head(valid_options) ELSE "1"

\* rung 2 returning the first capture as it is
PatternRung_Unchecked(captures, valid_options) ==
    IF captures = << >> THEN "" ELSE Head(captures)

\* rung 2: the patterns in list order; a capture that is a valid option, or
\* else contains / is contained in one, decides
RECURSIVE PatternRung(_, _)
PatternRung(captures, valid_options) ==
    IF captures = << >> THEN ""
    ELSE LET ans  == Head(captures)
             near == SelectSeq(valid_options, LAMBDA opt : IsSub(ans, opt) \/ IsSub(opt, ans))
         IN  IF ans \in Range(valid_options) THEN ans
             ELSE IF near # << >> THEN Head(near)
             ELSE PatternRung(Tail(captures), valid_options)

\* the ladder with rung 4 tried before rungs 2 and 3
extract_ai_answer_WordsFirst(response_text, valid_options) ==
    LET tagged   == PatternRung(response_text.captures, valid_options)
        prefixed == SelectSeq(valid_options, LAMBDA opt : StartsWith(response_text.first, opt))
        worded   == SelectSeq(valid_options, LAMBDA opt : opt \in response_text.words)
    IN  IF response_text.empty THEN FirstValid(valid_options)
        ELSE IF response_text.strip \in Range(valid_options) THEN response_text.strip
        ELSE IF worded # << >> THEN Head(worded)
        ELSE IF tagged # "" THEN tagged
        ELSE IF prefixed # << >> THEN Head(prefixed)
        ELSE FirstValid(valid_options)

extract_ai_answer(response_text, valid_options) ==
    LET tagged   == PatternRung(response_text.captures, valid_options)
        prefixed == SelectSeq(valid_options, LAMBDA opt : StartsWith(response_text.first, opt))
        worded   == SelectSeq(valid_options, LAMBDA opt : opt \in response_text.words)
    IN  IF response_text.empty THEN FirstValid(valid_options)
        ELSE IF response_text.strip \in Range(valid_options) THEN response_text.strip
        ELSE IF tagged # "" THEN tagged
        ELSE IF prefixed # << >> THEN Head(prefixed)
        ELSE IF worded # << >> THEN Head(worded)
        ELSE FirstValid(valid_options)

(***************************************************************************)
(* process_ai_task, given what call_ai_api returned: <<response, success>>.*)
(* The prompt that build_free_prompt makes of the question and the options *)
(* decides nothing here and is left out.                                   *)
(***************************************************************************)
process_ai_task(task, response, success) ==
    IF success /\ ~response.empty
    THEN [qid |-> task.qid, ai_answer |-> extract_ai_answer(response, task.options),
          ai_success |-> TRUE, rule_answer |-> task.rule_answer]
    ELSE [qid |-> task.qid, ai_answer |-> task.rule_answer,
          ai_success |-> FALSE, rule_answer |-> task.rule_answer]

(***************************************************************************)
(* solver.py: the body of the rule loop of Solver.run for one row          *)
(* (lines 114-228), as a function of the question.                         *)
(***************************************************************************)
CauseCode(cause_type) ==
    CASE cause_type = "weak_coverage"   -> "C1"
      [] cause_type = "overshoot"       -> "C2"
      [] cause_type = "neighbor_higher" -> "C3"
      [] cause_type = "overlap"         -> "C4"
      [] cause_type = "handover"        -> "C5"
      [] cause_type = "pci_conflict"    -> "C6"
      [] cause_type = "high_speed"      -> "C7"
      [] cause_type = "low_rb"          -> "C8"
      [] OTHER                          -> ""

\* re-resolution of the answer when the option set is not the full set of 8
ResolveIncomplete(cause_type, cause_to_option, options) ==
    LET cause_code     == CauseCode(cause_type)
        available_c1c3 == SelectSeq(<<"C1", "C3">>, LAMBDA c : c \in DOMAIN cause_to_option)
    IN  IF cause_code # "" /\ cause_code \in DOMAIN cause_to_option
        THEN cause_to_option[cause_code]
        ELSE IF Len(available_c1c3) = 1 THEN cause_to_option[available_c1c3[1]]
        ELSE IF Len(available_c1c3) = 2
             THEN IF cause_type = "weak_coverage" THEN cause_to_option["C1"]
                  ELSE cause_to_option["C3"]
        ELSE IF options # << >> THEN options[1] ELSE "1"

FullAlphabet == Range(Letters)

FullOptionCount == 8

\* does the standard branch hand a low confidence case to the oracle
StandardNeedsAi(confidence) == FALSE

\* lines 131-161: the answer of a standard row
StandardRowAnswer(solved, question, options) ==
    IF Len(options) # FullOptionCount
    THEN ResolveIncomplete(solved.cause_type,
                           get_cause_to_option_reverse_map(question), options)
    ELSE solved.answer

StandardRowOf(solved, question, options) ==
    [needs_ai |-> StandardNeedsAi(solved.confidence),
     rule_answer |-> StandardRowAnswer(solved, question, options),
     rule_desc |-> solved.rule_desc,
     cause_type |-> solved.cause_type, confidence |-> solved.confidence,
     excluded_opts |-> << >>, remaining_opts |-> << >>,
     stat |-> IF solved.confidence = "high" THEN "standard_high" ELSE "standard_low"]

StandardRow(question, options, option_mapping) ==
    StandardRowOf(solve_standard_question_with_confidence(
                      extract_features(question), option_mapping, options),
                  question, options)

\* remaining_opts = sorted(set('ABCDEFGHI') - excluded_set)
RemainingOpts(excluded_set) == Sorted(FullAlphabet \ excluded_set)

NonstandardTelecomRowOf(solved) ==
    [needs_ai |-> solved.confidence # "high", rule_answer |-> solved.answer,
     rule_desc |-> solved.rule_desc,
     cause_type |-> solved.cause_type, confidence |-> solved.confidence,
     excluded_opts |-> Sorted(solved.excluded_options),
     remaining_opts |-> RemainingOpts(solved.excluded_options),
     stat |-> IF solved.confidence = "high" THEN "nonstandard_telecom_high"
              ELSE "nonstandard_telecom_low"]

NonstandardTelecomRow(question, options, option_mapping) ==
    NonstandardTelecomRowOf(
        solve_nonstandard_telecom_with_confidence(question, option_mapping, options))

OtherRow(question, options) ==
    [needs_ai |-> TRUE, rule_answer |-> IF options # << >> THEN options[1] ELSE "1",
     rule_desc |-> "Non-telecom question, needs AI",
     cause_type |-> "", confidence |-> "none",
     excluded_opts |-> << >>, remaining_opts |-> options,
     stat |-> "nonstandard_other"]

\* phase2_data[qid], with the statistics counter the row increments; the
\* question text and features_dict, which nothing reads afterwards, are left out
Phase2Entry(options, question_type, row) ==
    [options |-> options, question_type |-> question_type,
     needs_ai |-> row.needs_ai, rule_answer |-> row.rule_answer,
     rule_desc |-> row.rule_desc, cause_type |-> row.cause_type,
     confidence |-> row.confidence, excluded_opts |-> row.excluded_opts,
     remaining_opts |-> row.remaining_opts, stat |-> row.stat]

\* the branch on question_type (lines 127, 170, 185)
RowByType(question, question_type, options, option_mapping) ==
    IF question_type = "standard"
    THEN StandardRow(question, options, option_mapping)
    ELSE IF question_type = "nonstandard_telecom"
    THEN NonstandardTelecomRow(question, options, option_mapping)
    ELSE OtherRow(question, options)

RuleRowWith(question, question_type, options) ==
    Phase2Entry(options, question_type,
                RowByType(question, question_type, options, extract_option_mapping(question)))

RuleRowData(question) ==
    RuleRowWith(question, get_question_type(question), extract_options_from_question(question))

\* the escalation task of a row: options = remaining_opts if remaining_opts else options
MakeTask(qid, data) ==
    [qid |-> qid,
     options |-> IF data.remaining_opts # << >> THEN data.remaining_opts ELSE data.options,
     rule_answer |-> data.rule_answer]

\* an aggregator without the fallback to the rule answer
FinalAnswer_NoFallback(data, qid, cache) ==
    IF data.needs_ai THEN Get(Get(cache, qid, EmptyMap), "answer", "")
    ELSE data.rule_answer

\* an aggregator that never looks at the cache
FinalAnswer_RuleOnly(data, qid, cache) == data.rule_answer

\* the aggregator's answer for a row (lines 341-347)
FinalAnswer(data, qid, cache) ==
    IF data.needs_ai /\ qid \in DOMAIN cache
       /\ Get(cache[qid], "success", Get(cache[qid], "ai_success", FALSE))
    THEN Get(cache[qid], "answer", Get(cache[qid], "ai_answer", data.rule_answer))
    ELSE data.rule_answer

(***************************************************************************)
(* The state of a run of Solver.run and of what outlives it.               *)
(***************************************************************************)
VARIABLES
    test_rows,         \* the input dataset: a list of [ID, question]
    progress_file,     \* progress.json: << >> when absent, else <<checkpoint>>
    log_file,          \* solve_log.jsonl: the list of entries (<< >> when absent)
    submission_file,   \* submission.csv: the rows written by the last full run
    runs,              \* number of runs started so far
    pc,                \* where the main thread is: "off", "rules", "ai",
                       \* "ai_shutdown", "retry_head", "retry", "retry_shutdown",
                       \* "gen", "done"
    i,                 \* index of the next row of the rule loop / generate loop
    processed_ids, results, ai_results_cache,
    phase2_data, ai_tasks, failed_tasks, retry_round, completed, stats,
    queue,             \* executor: submitted work items not yet taken by a worker
    running,           \* executor: tasks in flight, qid -> [task, attempt]
    finished,          \* executor: done futures as_completed has not yielded yet
    dispatched,        \* history: qid -> number of times the task was submitted
    arg, ret           \* input and output of a function applied on its own

persistent == <<test_rows, progress_file, log_file, submission_file, runs>>
memory     == <<processed_ids, results, ai_results_cache, phase2_data, ai_tasks,
                failed_tasks, retry_round, completed, stats>>
executor   == <<queue, running, finished, dispatched>>
vars       == <<persistent, pc, i, memory, executor, arg, ret>>

\* bounds of the model
NumCases   == 2
MaxRuns    == 2
MaxWorkers == 2

\* program constants
max_retries      == 5
max_retry_rounds == 3
SaveEvery        == 10

IDs == <<"q1", "q2", "q3", "q4">>

StatKeys == {"standard_high", "standard_low", "nonstandard_telecom_high",
             "nonstandard_telecom_low", "nonstandard_other",
             "ai_called", "ai_success", "ai_failed"}

Checkpoint(ids, rows, cache) ==
    [processed_ids |-> ids, results |-> rows, ai_results |-> cache]

\* load_progress that restores the rows and the cache but not the ids
load_progress_ForgetIds(file) ==
    IF file # << >> THEN Checkpoint({}, file[1].results, file[1].ai_results)
    ELSE Checkpoint({}, << >>, EmptyMap)

\* load_progress
load_progress(file) ==
    IF file # << >> THEN file[1] ELSE Checkpoint({}, << >>, EmptyMap)

\* save_progress
save_progress(ids, rows, cache) == <<Checkpoint(ids, rows, cache)>>

\* what open(..., 'w') and json.dump leave behind when the write is cut short:
\* the file was truncated on opening and holds the beginning of the text, here
\* the list of ids and the first k rows; it is not valid JSON
Truncated(ids, rows, k) ==
    [unparsable |-> TRUE, processed_ids |-> ids, results |-> SubSeq(rows, 1, k)]

\* does json.load accept the content, and is the value a dict
IsDict(content) == "unparsable" \notin DOMAIN content /\ "not_dict" \notin DOMAIN content

\* does the prologue of run() get past load_progress and the three .get calls
Loads(file) == IF file = << >> THEN TRUE ELSE IsDict(file[1])

Bump(st, key) == [st EXCEPT ![key] = @ + 1]

Put(f, k, v) == [x \in DOMAIN f \cup {k} |-> IF x = k THEN v ELSE f[x]]

Drop(f, k) == [x \in DOMAIN f \ {k} |-> f[x]]

\* counts of submissions after submitting every task of the list
Submitted(counts, tasks) ==
    [q \in DOMAIN counts \cup { tasks[k].qid : k \in 1..Len(tasks) } |->
        Get(counts, q, 0) + Cardinality({ k \in 1..Len(tasks) : tasks[k].qid = q })]

ZeroStats == [k \in StatKeys |-> 0]

\* the memory of a process that is not running (nothing is kept)
MemoryOff ==
    /\ i = 0
    /\ processed_ids = {}
    /\ results = << >>
    /\ ai_results_cache = EmptyMap
    /\ phase2_data = EmptyMap
    /\ ai_tasks = << >>
    /\ failed_tasks = << >>
    /\ retry_round = 0
    /\ completed = 0
    /\ stats = ZeroStats
    /\ queue = << >>
    /\ running = EmptyMap
    /\ finished = {}
    /\ dispatched = EmptyMap

\* the process ends: its memory is gone, only the files remain
ProcessExit ==
    /\ pc' = "off"
    /\ i' = 0
    /\ processed_ids' = {}
    /\ results' = << >>
    /\ ai_results_cache' = EmptyMap
    /\ phase2_data' = EmptyMap
    /\ ai_tasks' = << >>
    /\ failed_tasks' = << >>
    /\ retry_round' = 0
    /\ completed' = 0
    /\ stats' = ZeroStats
    /\ queue' = << >>
    /\ running' = EmptyMap
    /\ finished' = {}
    /\ dispatched' = EmptyMap

(***************************************************************************)
(* The catalogue of questions the dataset of the model is drawn from.      *)
(***************************************************************************)
Line(id, desc) == [id |-> id, desc |-> desc]

StandardLines ==
    <<Line("1", "downtilt too large, weak coverage at the far end"),
      Line("2", "coverage distance exceeds 1km, over-shooting"),
      Line("3", "neighboring cell provides higher throughput"),
      Line("4", "severe overlapping coverage"),
      Line("5", "frequent handovers degrade performance"),
      Line("6", "same pci mod 30"),
      Line("7", "test vehicle speed exceeds 40km/h"),
      Line("8", "average scheduled rbs are below 160")>>

TelecomLines ==
    <<Line("A", "rf parameters lead to weak coverage"),
      Line("B", "missing neighbor configuration"),
      Line("C", "test server or transport anomaly"),
      Line("D", "intra-frequency handover threshold is too high")>>

OtherLines == <<Line("A", "other"), Line("B", "other"), Line("C", "other")>>

Question(std_header, telecom_kw, lines, dt_records, eng_records, nt_rows) ==
    [std_header |-> std_header, telecom_kw |-> telecom_kw, lines |-> lines,
     dt_records |-> dt_records, eng_records |-> eng_records, nt_rows |-> nt_rows]

DtRow(speed, pci, n1, rb, rsrp) ==
    [speed |-> speed, pci |-> pci, n1 |-> n1, rb |-> rb, rsrp |-> rsrp]

NtRow(rsrp, sinr, cce, pci) == [rsrp |-> rsrp, sinr |-> sinr, cce |-> cce, pci |-> pci]

\* a standard question driven at 50 km/h: Rule 4, high confidence
QStandardHigh ==
    Question(TRUE, TRUE, StandardLines,
             <<DtRow(<<T(50)>>, <<100>>, <<101>>, <<T(200)>>, <<T(-85)>>)>>, << >>, << >>)

\* a standard question whose telemetry table has its header and no row
QStandardEmpty == Question(TRUE, TRUE, StandardLines, << >>, << >>, << >>)

\* a non-standard telecom question none of the three high rules decides
QTelecomLow ==
    Question(FALSE, TRUE, TelecomLines, << >>, << >>,
             <<NtRow(<<T(-90)>>, <<T(10)>>, <<10>>, <<5>>)>>)

\* a non-standard telecom question with RSRP below -100: Rule 1, high
QTelecomHigh ==
    Question(FALSE, TRUE, TelecomLines, << >>, << >>,
             <<NtRow(<<T(-105)>>, <<T(10)>>, <<10>>, <<5>>)>>)

\* a question with no telecom marker at all
QOther == Question(FALSE, FALSE, OtherLines, << >>, << >>, << >>)

Catalogue == {QStandardHigh, QStandardEmpty, QTelecomLow, QTelecomHigh, QOther}

\* what the oracle may answer with status 200: "Analysis ... \boxed{G}",
\* the bare text "B", and an empty content
OracleResponses ==
    {Text("", <<"G">>, "A", {"G"}), Text("B", << >>, "B", {"B"}), EmptyResponse}

\* the ways one request of call_ai_api fails
FailureKinds ==
    {"rate_limit_429", "server_error_5xx", "other_http", "timeout",
     "connection_error", "retryable_exception", "non_retryable_exception"}

NoCall == [called |-> FALSE]

\* no run has started yet and no file exists
NothingRun ==
    /\ progress_file = << >>
    /\ log_file = << >>
    /\ submission_file = << >>
    /\ runs = 0
    /\ pc = "off"
    /\ MemoryOff

\* the rows of the test file: distinct ids, questions of the catalogue
Datasets(n) ==
    { [k \in 1..n |-> [ID |-> IDs[k], question |-> qs[k]]] : qs \in [1..n -> Catalogue] }

Init ==
    /\ test_rows \in UNION { Datasets(n) : n \in 1..NumCases }
    /\ NothingRun
    /\ arg = NoCall
    /\ ret = NoCall

(***************************************************************************)
(* Solver.run, step by step.                                               *)
(***************************************************************************)
\* between two runs cases are appended to the test file, which every run
\* reads anew (lines 96-102)
DatasetGrows ==
    /\ pc = "off"
    /\ Len(test_rows) < NumCases
    /\ \E q \in Catalogue :
          test_rows' = Append(test_rows, [ID |-> IDs[Len(test_rows) + 1], question |-> q])
    /\ UNCHANGED <<progress_file, log_file, submission_file, runs, pc, i, memory,
                   executor, arg, ret>>

\* line 85
is_fresh_start(ids, cache) == ids = {} /\ DOMAIN cache = {}

\* json.load raises on the content of progress.json, or the value it returns
\* has no .get: the exception leaves run() before anything else is done
LoadFails ==
    /\ pc = "off"
    /\ runs < MaxRuns
    /\ ~Loads(progress_file)
    /\ runs' = runs + 1
    /\ UNCHANGED <<test_rows, progress_file, log_file, submission_file, pc, i, memory,
                   executor, arg, ret>>

\* lines 76-107: a new process loads the checkpoint; a fresh start clears the log
StartRun ==
    /\ pc = "off"
    /\ runs < MaxRuns
    /\ Loads(progress_file)
    /\ LET progress == load_progress(progress_file)
       IN  /\ processed_ids' = Get(progress, "processed_ids", {})
           /\ results' = Get(progress, "results", << >>)
           /\ ai_results_cache' = Get(progress, "ai_results", EmptyMap)
           /\ log_file' = IF is_fresh_start(Get(progress, "processed_ids", {}),
                                            Get(progress, "ai_results", EmptyMap))
                          THEN << >> ELSE log_file
    /\ runs' = runs + 1
    /\ pc' = "rules"
    /\ i' = 1
    /\ UNCHANGED <<test_rows, progress_file, submission_file, phase2_data, ai_tasks,
                   failed_tasks, retry_round, completed, stats, executor, arg, ret>>

\* lines 109-231: one iteration of the rule loop
\* a rule loop that passes over no row
SkipInRules_Never(qid, ids) == FALSE

\* does the rule loop pass over this row (lines 111-112)
SkipInRules(qid, ids) == qid \in ids

\* lines 200-228: the row's data is recorded and its task queued
\* a rule loop that builds a task for every escalated case
NeedsTask_IgnoreCache(data, qid, cache) == data.needs_ai

\* lines 214 and 221: an escalated case gets a task unless the cache has it
NeedsTask(data, qid, cache) == data.needs_ai /\ qid \notin DOMAIN cache

RecordRow(qid, data) ==
    /\ phase2_data' = Put(phase2_data, qid, data)
    /\ stats' = Bump(stats, data.stat)
    /\ ai_tasks' = IF NeedsTask(data, qid, ai_results_cache)
                   THEN Append(ai_tasks, MakeTask(qid, data))
                   ELSE ai_tasks

RuleStep ==
    /\ pc = "rules"
    /\ i <= Len(test_rows)
    /\ IF SkipInRules(test_rows[i].ID, processed_ids)
       THEN UNCHANGED <<phase2_data, ai_tasks, stats>>
       ELSE RecordRow(test_rows[i].ID, RuleRowData(test_rows[i].question))
    /\ i' = i + 1
    /\ UNCHANGED <<persistent, pc, processed_ids, results, ai_results_cache,
                   failed_tasks, retry_round, completed, executor, arg, ret>>

\* lines 240-252: after the loop, "if ai_tasks:" submits every task to the pool
RulesDone ==
    /\ pc = "rules"
    /\ i > Len(test_rows)
    /\ IF ai_tasks # << >>
       THEN /\ pc' = "ai"
            /\ queue' = ai_tasks
            /\ dispatched' = Submitted(dispatched, ai_tasks)
            /\ i' = i
       ELSE /\ pc' = "gen"
            /\ i' = 1
            /\ UNCHANGED <<queue, dispatched>>
    /\ UNCHANGED <<persistent, memory, running, finished, arg, ret>>

\* the size of the pool the tasks of this phase run on (lines 251, 306)
\* a retry round with the pool of the initial pass
PoolSize_Full(phase) == MaxWorkers

\* max_workers in the initial pass (line 251), max(1, max_workers // 2) in a
\* retry round (line 306)
PoolSize(phase) ==
    IF phase \in {"ai", "ai_shutdown"} THEN MaxWorkers
    ELSE IF MaxWorkers \div 2 > 1 THEN MaxWorkers \div 2 ELSE 1

Executing == {"ai", "ai_shutdown", "retry", "retry_shutdown"}

\* may a worker take the next work item in this phase
WorkerMayStart(phase) == phase \in Executing

\* a pool thread takes the next work item and enters process_ai_task
WorkerStart ==
    /\ WorkerMayStart(pc)
    /\ queue # << >>
    /\ Cardinality(DOMAIN running) < PoolSize(pc)
    /\ running' = Put(running, Head(queue).qid, [task |-> Head(queue), attempt |-> 0])
    /\ queue' = Tail(queue)
    /\ UNCHANGED <<persistent, pc, i, memory, finished, dispatched, arg, ret>>

Future(task, raised, result) == [task |-> task, raised |-> raised, result |-> result]

\* call_ai_api, one request answered 200: the call returns (content, True) and
\* process_ai_task completes the future
ApiSuccess(q, response) ==
    /\ pc \in Executing
    /\ q \in DOMAIN running
    /\ finished' = finished \cup
          {Future(running[q].task, FALSE, process_ai_task(running[q].task, response, TRUE))}
    /\ running' = Drop(running, q)
    /\ UNCHANGED <<persistent, pc, i, memory, queue, dispatched, arg, ret>>

\* a 200 whose content is not a string: extract_ai_answer raises in .strip()
ApiNonString(q) ==
    /\ pc \in Executing
    /\ q \in DOMAIN running
    /\ finished' = finished \cup
          {Future(running[q].task, TRUE, process_ai_task(running[q].task, EmptyResponse, FALSE))}
    /\ running' = Drop(running, q)
    /\ UNCHANGED <<persistent, pc, i, memory, queue, dispatched, arg, ret>>

\* a loop that allows one request more
AttemptsExhausted_OneMore(attempt) == attempt >= max_retries

\* has the loop "for attempt in range(max_retries)" run out after this attempt
AttemptsExhausted(attempt) == attempt + 1 >= max_retries

\* call_ai_api, one request that fails in any way: sleep and go round the
\* loop, or return (None, False) when that was the last attempt
ApiFailure(q, kind) ==
    /\ pc \in Executing
    /\ q \in DOMAIN running
    /\ kind \in FailureKinds
    /\ IF AttemptsExhausted(running[q].attempt)
       THEN /\ finished' = finished \cup
                  {Future(running[q].task, FALSE,
                          process_ai_task(running[q].task, EmptyResponse, FALSE))}
            /\ running' = Drop(running, q)
       ELSE /\ running' = [running EXCEPT ![q].attempt = @ + 1]
            /\ UNCHANGED finished
    /\ UNCHANGED <<persistent, pc, i, memory, queue, dispatched, arg, ret>>

CacheEntry(result) == [answer |-> result.ai_answer, success |-> TRUE]

\* lines 254-285: as_completed yields a done future of the initial pass
Consume(f) ==
    /\ pc = "ai"
    /\ f \in finished
    /\ finished' = finished \ {f}
    /\ IF f.raised
       THEN /\ failed_tasks' = Append(failed_tasks, f.task)
            /\ UNCHANGED <<stats, ai_results_cache, completed, progress_file>>
       ELSE /\ IF f.result.ai_success
               THEN /\ stats' = Bump(Bump(stats, "ai_called"), "ai_success")
                    /\ ai_results_cache' = Put(ai_results_cache, f.result.qid, CacheEntry(f.result))
                    /\ UNCHANGED failed_tasks
               ELSE /\ stats' = Bump(Bump(stats, "ai_called"), "ai_failed")
                    /\ failed_tasks' = Append(failed_tasks, f.task)
                    /\ UNCHANGED ai_results_cache
            /\ completed' = completed + 1
            /\ progress_file' = IF completed' % SaveEvery = 0
                                THEN save_progress(processed_ids, results, ai_results_cache')
                                ELSE progress_file
    /\ UNCHANGED <<test_rows, log_file, submission_file, runs, pc, i, processed_ids,
                   results, phase2_data, ai_tasks, retry_round, queue, running,
                   dispatched, arg, ret>>

\* the writes that sit inside a "with stats_lock:" block: in the initial pass
\* the statistics and the cache (lines 262-272), in a retry round the
\* statistics alone (lines 314-316; the cache is written at 317-320 after the
\* block), in the generate loop none (lines 336-372)
UnderStatsLock(phase, field) ==
    \/ phase = "ai" /\ field \in {"stats", "ai_results_cache"}
    \/ phase = "retry" /\ field \in {"stats"}

\* as_completed is exhausted and the with block of the initial pass is left
AiPassDone ==
    /\ pc = "ai"
    /\ queue = << >> /\ DOMAIN running = {} /\ finished = {}
    /\ pc' = "retry_head"
    /\ retry_round' = 0
    /\ UNCHANGED <<persistent, i, processed_ids, results, ai_results_cache, phase2_data,
                   ai_tasks, failed_tasks, completed, stats, executor, arg, ret>>

\* lines 300-307: the head of the retry loop
RetryHead ==
    /\ pc = "retry_head"
    /\ IF failed_tasks # << >> /\ retry_round < max_retry_rounds
       THEN /\ retry_round' = retry_round + 1
            /\ queue' = failed_tasks
            /\ dispatched' = Submitted(dispatched, failed_tasks)
            /\ failed_tasks' = << >>
            /\ pc' = "retry"
            /\ i' = i
       ELSE /\ pc' = "gen"
            /\ i' = 1
            /\ UNCHANGED <<retry_round, queue, dispatched, failed_tasks>>
    /\ UNCHANGED <<persistent, processed_ids, results, ai_results_cache, phase2_data,
                   ai_tasks, completed, stats, running, finished, arg, ret>>

\* lines 308-326: as_completed yields a done future of a retry round
ConsumeRetry(f) ==
    /\ pc = "retry"
    /\ f \in finished
    /\ finished' = finished \ {f}
    /\ IF ~f.raised /\ f.result.ai_success
       THEN /\ stats' = [stats EXCEPT !["ai_success"] = @ + 1, !["ai_failed"] = @ - 1]
            /\ ai_results_cache' = Put(ai_results_cache, f.result.qid, CacheEntry(f.result))
            /\ UNCHANGED failed_tasks
       ELSE /\ failed_tasks' = Append(failed_tasks, f.task)
            /\ UNCHANGED <<stats, ai_results_cache>>
    /\ UNCHANGED <<persistent, pc, i, processed_ids, results, phase2_data, ai_tasks,
                   retry_round, completed, queue, running, dispatched, arg, ret>>

\* lines 327-331: the round's pool is done; the checkpoint is saved
RetryRoundDone ==
    /\ pc = "retry"
    /\ queue = << >> /\ DOMAIN running = {} /\ finished = {}
    /\ progress_file' = save_progress(processed_ids, results, ai_results_cache)
    /\ pc' = "retry_head"
    /\ UNCHANGED <<test_rows, log_file, submission_file, runs, i, memory, executor, arg, ret>>

Suffixes == <<1, 2, 3, 4>>

\* the four output rows of a question (lines 358-370)
OutputRows(qid, answer) ==
    [k \in 1..Len(Suffixes) |->
        [ID |-> <<qid, Suffixes[k]>>, combined |-> format_answer(answer),
         rule_based |-> "placeholder", ai_based |-> "placeholder"]]

LogEntry(qid, data, answer) ==
    [id |-> qid, type |-> data.question_type, rule |-> data.rule_desc,
     answer |-> answer, needs_ai |-> data.needs_ai]

\* does the generate loop pass over this row (lines 338-339)
SkipProcessed(qid, ids) == qid \in ids

\* a generate loop that walks the test file backwards
NextCase_Backwards(rows, k) == rows[Len(rows) + 1 - k]

\* line 336: "for row in test_rows", the row of the k-th iteration
NextCase(rows, k) == rows[k]

\* lines 336-372: one iteration of the generate loop
GenStep ==
    /\ pc = "gen"
    /\ i <= Len(test_rows)
    /\ LET qid == NextCase(test_rows, i).ID
       IN  IF SkipProcessed(qid, processed_ids)
           THEN UNCHANGED <<log_file, results, processed_ids>>
           ELSE LET answer == FinalAnswer(phase2_data[qid], qid, ai_results_cache)
                IN  /\ log_file' = Append(log_file, LogEntry(qid, phase2_data[qid], answer))
                    /\ results' = results \o OutputRows(qid, answer)
                    /\ processed_ids' = processed_ids \cup {qid}
    /\ i' = i + 1
    /\ UNCHANGED <<test_rows, progress_file, submission_file, runs, pc, ai_results_cache,
                   phase2_data, ai_tasks, failed_tasks, retry_round, completed, stats,
                   executor, arg, ret>>

\* lines 374-411: the final save, the statistics and the submission file
GenDone ==
    /\ pc = "gen"
    /\ i > Len(test_rows)
    /\ progress_file' = save_progress(processed_ids, results, ai_results_cache)
    /\ submission_file' = results
    /\ pc' = "done"
    /\ UNCHANGED <<test_rows, log_file, runs, i, memory, executor, arg, ret>>

\* run() returns and the process ends
Exit ==
    /\ pc = "done"
    /\ ProcessExit
    /\ UNCHANGED <<persistent, arg, ret>>

\* KeyboardInterrupt outside the try block of the initial pass: it leaves
\* run() unhandled (main only prints), nothing is saved
InterruptPlain ==
    /\ pc \in {"rules", "retry_head", "gen"}
    /\ ProcessExit
    /\ UNCHANGED <<persistent, arg, ret>>

\* KeyboardInterrupt inside a "with ThreadPoolExecutor" block: the block's
\* exit runs executor.shutdown(wait=True) before the exception goes on
InterruptPool ==
    /\ pc \in {"ai", "retry"}
    /\ pc' = IF pc = "ai" THEN "ai_shutdown" ELSE "retry_shutdown"
    /\ UNCHANGED <<persistent, i, memory, executor, arg, ret>>

\* lines 286-295: shutdown has returned; the handler of the initial pass saves
\* the checkpoint and re-raises
AiShutdownDone ==
    /\ pc = "ai_shutdown"
    /\ queue = << >> /\ DOMAIN running = {}
    /\ progress_file' = save_progress(processed_ids, results, ai_results_cache)
    /\ ProcessExit
    /\ UNCHANGED <<test_rows, log_file, submission_file, runs, arg, ret>>

\* shutdown of a retry round's pool has returned; no handler, nothing saved
RetryShutdownDone ==
    /\ pc = "retry_shutdown"
    /\ queue = << >> /\ DOMAIN running = {}
    /\ ProcessExit
    /\ UNCHANGED <<persistent, arg, ret>>

\* is the main thread at a call of save_progress outside the loop of the
\* initial pass: the interrupt handler (line 289), the end of a retry round
\* (line 327), the final save (line 374)
AtSave ==
    \/ pc \in {"ai_shutdown", "retry"} /\ queue = << >> /\ DOMAIN running = {}
                                       /\ (pc = "retry" => finished = {})
    \/ pc = "gen" /\ i > Len(test_rows)

\* KeyboardInterrupt while save_progress is writing: the file is left cut
\* short and the exception leaves run()
InterruptSave ==
    /\ AtSave
    /\ \E k \in 0..Len(results) :
          progress_file' = <<Truncated(processed_ids, results, k)>>
    /\ ProcessExit
    /\ UNCHANGED <<test_rows, log_file, submission_file, runs, arg, ret>>

Next ==
    \/ DatasetGrows
    \/ StartRun
    \/ LoadFails
    \/ InterruptSave
    \/ RuleStep
    \/ RulesDone
    \/ WorkerStart
    \/ \E q \in DOMAIN running : \E response \in OracleResponses : ApiSuccess(q, response)
    \/ \E q \in DOMAIN running : ApiNonString(q)
    \/ \E q \in DOMAIN running : \E kind \in FailureKinds : ApiFailure(q, kind)
    \/ \E f \in finished : Consume(f)
    \/ AiPassDone
    \/ RetryHead
    \/ \E f \in finished : ConsumeRetry(f)
    \/ RetryRoundDone
    \/ GenStep
    \/ GenDone
    \/ Exit
    \/ InterruptPlain
    \/ InterruptPool
    \/ AiShutdownDone
    \/ RetryShutdownDone

Spec == Init /\ [][Next]_vars

(***************************************************************************)
(* Properties of the runs (specification Spec).                            *)
(***************************************************************************)
TaskIds(tasks) == { tasks[k].qid : k \in 1..Len(tasks) }

QuestionOf(qid) == test_rows[CHOOSE k \in 1..Len(test_rows) : test_rows[k].ID = qid].question

RowsOf(rows, qid) == SelectSeq(rows, LAMBDA r : r.ID[1] = qid)

\* the ids of the checkpoint a run would load
IdsOf(file) ==
    IF file = << >> THEN {}
    ELSE IF IsDict(file[1]) THEN Get(file[1], "processed_ids", {}) ELSE {}

FileIds == IdsOf(progress_file)

\* C2: every case the rule stage classified with confidence low is escalated:
\* it has an escalation task, or an oracle outcome already in the cache
C2_LowConfidenceEscalated ==
    \A q \in DOMAIN phase2_data :
        phase2_data[q].confidence = "low"
            => (q \in TaskIds(ai_tasks) \/ q \in DOMAIN ai_results_cache)

\* C3: the answer of every emitted row is one of the option labels
\* extract_options_from_question returns for the row's case
C3_FinalAnswerInOptions ==
    \A k \in 1..Len(results) :
        results[k].combined[2] \in
            Range(extract_options_from_question(QuestionOf(results[k].ID[1])))

\* the rows of the checkpoint a run would load
FileRows(file) ==
    IF file = << >> THEN << >>
    ELSE IF IsDict(file[1]) THEN Get(file[1], "results", << >>) ELSE << >>

\* C6: once case X is in the processed_ids of the checkpoint, no later step
\* of any run changes the rows recorded for X: every checkpoint written in
\* full keeps exactly the same rows for X, the file is never removed, and the
\* results a run holds in memory keep the same rows for X
RowsKept ==
    /\ \A q \in FileIds :
          /\ progress_file' # << >>
          /\ Loads(progress_file')
                => RowsOf(FileRows(progress_file'), q) = RowsOf(FileRows(progress_file), q)
    /\ (pc # "off" /\ pc' # "off")
          => \A q \in processed_ids : RowsOf(results', q) = RowsOf(results, q)

GrowsNeverRedone ==
    /\ FileIds # {} =>
          /\ progress_file' # << >>
          /\ Loads(progress_file') => FileIds \subseteq IdsOf(progress_file')
    /\ (pc # "off" /\ pc' # "off") =>
          /\ processed_ids \subseteq processed_ids'
          /\ \A q \in processed_ids :
                /\ q \in DOMAIN phase2_data' => q \in DOMAIN phase2_data
                /\ q \in TaskIds(ai_tasks') => q \in TaskIds(ai_tasks)
                /\ q \in DOMAIN running' => q \in DOMAIN running
                /\ Get(dispatched', q, 0) = Get(dispatched, q, 0)
                /\ SelectSeq(log_file', LAMBDA e : e.id = q)
                       = SelectSeq(log_file, LAMBDA e : e.id = q)
                /\ RowsOf(results', q) = RowsOf(results, q)

C8_AttemptBudget ==
    /\ \A q \in DOMAIN running : running[q].attempt < max_retries
    /\ \A q \in DOMAIN dispatched : dispatched[q] <= 1 + max_retry_rounds
    /\ retry_round <= max_retry_rounds
    /\ pc \in {"gen", "done"} =>
          \A k \in 1..Len(ai_tasks) :
              \/ ai_tasks[k].qid \in DOMAIN ai_results_cache
              \/ ai_tasks[k] \in Range(failed_tasks)

\* the last request of the last dispatch of a task
C8_Witness ==
    \E q \in DOMAIN running :
        /\ running[q].attempt = max_retries - 1
        /\ dispatched[q] = 1 + max_retry_rounds

\* C9: a run in which a task is still failed after every retry round goes on
\* to the end: every case of the file is processed and has its rows, and the
\* rows of the failed case carry its rule answer
C9_FailedTaskFallsBack ==
    pc = "done" =>
        /\ \A k \in 1..Len(test_rows) :
              /\ test_rows[k].ID \in processed_ids
              /\ Len(RowsOf(results, test_rows[k].ID)) = Len(Suffixes)
        /\ \A k \in 1..Len(failed_tasks) :
              \A r \in Range(RowsOf(results, failed_tasks[k].qid)) :
                  r.combined = format_answer(failed_tasks[k].rule_answer)

\* a run that ended with a task failed in the initial pass and in 3 rounds
C9_Witness ==
    /\ pc = "done"
    /\ failed_tasks # << >>
    /\ retry_round = max_retry_rounds
    /\ Len(results) = Len(Suffixes) * Len(test_rows)

\* C10: once the interrupt has arrived during a concurrent pass, no task
\* that was still queued is started
NoStartInShutdown ==
    pc \in {"ai_shutdown", "retry_shutdown"} => DOMAIN running' \subseteq DOMAIN running

C10_NoStartAfterInterrupt == [][NoStartInShutdown]_vars

\* the process ends on an interrupt
InterruptedExit == pc' = "off" /\ pc \notin {"off", "done"}

\* the checkpoint file holds every entry of this oracle cache
FileHoldsCache(file, cache) ==
    \A q \in DOMAIN cache :
        /\ file # << >>
        /\ Loads(file)
        /\ q \in DOMAIN Get(file[1], "ai_results", EmptyMap)
        /\ file[1].ai_results[q] = cache[q]

FlushedOnInterrupt == InterruptedExit => FileHoldsCache(progress_file', ai_results_cache)

\* C11: when a run is interrupted, in whatever phase, the checkpoint on disk
\* when the process exits holds every oracle outcome that had been accepted
\* into the oracle cache
C11_InterruptPersistsCache == [][FlushedOnInterrupt]_vars

\* the ids and the rows the bytes of a checkpoint file hold, whether or not
\* the file is complete
WrittenIds(content) == Get(content, "processed_ids", {})

WrittenRows(content) == Get(content, "results", << >>)

\* every id has its four rows with one answer, and every row belongs to an id
WholeCases(ids, rows) ==
    /\ \A q \in ids :
          /\ Len(RowsOf(rows, q)) = Len(Suffixes)
          /\ \A k \in 1..Len(Suffixes) : RowsOf(rows, q)[k].ID[2] = Suffixes[k]
          /\ \A r \in Range(RowsOf(rows, q)) : r.combined = RowsOf(rows, q)[1].combined
    /\ \A k \in 1..Len(rows) : rows[k].ID[1] \in ids

\* C12: in the checkpoint file, after any runs and interruptions, every id of
\* processed_ids has exactly its four rows, all with the same answer, and no
\* row belongs to an id outside processed_ids
C12_CheckpointHasWholeCases ==
    progress_file # << >> =>
        WholeCases(WrittenIds(progress_file[1]), WrittenRows(progress_file[1]))

\* the cases a run has classified whose cache entry came with the checkpoint:
\* the run holds no task for them
CachedOnLoad ==
    IF pc = "off" THEN {}
    ELSE { q \in DOMAIN ai_results_cache \cap DOMAIN phase2_data :
              phase2_data[q].needs_ai /\ q \notin TaskIds(ai_tasks) }

ResumeUsesCache ==
    /\ pc = "rules" => \A q \in DOMAIN ai_results_cache : q \notin TaskIds(ai_tasks')
    /\ pc # "off" =>
          \A q \in DOMAIN ai_results_cache :
              /\ pc' # "off" => (q \in DOMAIN ai_results_cache'
                                 /\ ai_results_cache'[q] = ai_results_cache[q])
              /\ q \notin TaskIds(queue')
              /\ q \notin DOMAIN running'
              /\ (pc' # "off" /\ RowsOf(results', q) # RowsOf(results, q))
                    => RowsOf(results', q) = OutputRows(q, ai_results_cache[q].answer)

\* C13: a case whose oracle answer is in the cache loaded from the checkpoint
\* gets no escalation task in the resumed run, is never handed to the pool,
\* and the rows the run emits for it carry the cached answer
C13_CachedCaseNotEscalatedAgain == [][ResumeUsesCache]_vars

C13_Witness ==
    /\ runs = 2
    /\ pc = "done"
    /\ \E q \in CachedOnLoad :
          /\ ai_results_cache[q].answer # phase2_data[q].rule_answer
          /\ RowsOf(results, q) = OutputRows(q, ai_results_cache[q].answer)

\* is the cache entry of the case marked accepted
Accepted(cache, q) == q \in DOMAIN cache /\ Get(cache[q], "success", FALSE)

CachedElseRule ==
    pc' # "off" =>
        \A q \in DOMAIN phase2_data :
            RowsOf(results', q) # RowsOf(results, q)
                => /\ RowsOf(results', q) =
                        OutputRows(q, IF Accepted(ai_results_cache, q)
                                      THEN ai_results_cache[q].answer
                                      ELSE phase2_data[q].rule_answer)
                   /\ log_file'[Len(log_file')].id = q
                   /\ log_file'[Len(log_file')].answer =
                        (IF Accepted(ai_results_cache, q)
                         THEN ai_results_cache[q].answer
                         ELSE phase2_data[q].rule_answer)

\* C14: the answer the aggregator records and logs for a case is the cached
\* oracle answer when the cache holds an accepted entry for the case, and the
\* rule answer otherwise
C14_FinalAnswerCachedElseRule == [][CachedElseRule]_vars

C14_Witness ==
    /\ pc = "done"
    /\ \E q \in processed_ids :
          /\ Accepted(ai_results_cache, q)
          /\ ai_results_cache[q].answer # phase2_data[q].rule_answer
          /\ RowsOf(results, q) = OutputRows(q, ai_results_cache[q].answer)
    /\ \E q \in processed_ids \cap DOMAIN phase2_data :
          /\ ~Accepted(ai_results_cache, q)
          /\ RowsOf(results, q) = OutputRows(q, phase2_data[q].rule_answer)

\* the position of a case in the test file
InputIndex(qid) == CHOOSE k \in 1..Len(test_rows) : test_rows[k].ID = qid

\* the rows at the tail of results that the running process appended
AppendedFrom ==
    Len(results) - Len(Suffixes) * Cardinality(processed_ids \cap DOMAIN phase2_data)

\* C15: the rows a run appends to results follow the order of the cases in
\* the test file, whatever the order in which the escalations completed
C15_AppendedInInputOrder ==
    pc # "off" =>
        /\ AppendedFrom >= 0
        /\ \A a, b \in (AppendedFrom + 1)..Len(results) :
              a < b => InputIndex(results[a].ID[1]) <= InputIndex(results[b].ID[1])
        /\ \A a \in 1..AppendedFrom : results[a].ID[1] \notin DOMAIN phase2_data

\* both cases were escalated, the second was accepted in the initial pass and
\* the first only in a retry round
C15_Witness ==
    /\ pc = "done"
    /\ Len(test_rows) = 2
    /\ Get(dispatched, test_rows[1].ID, 0) > 1
    /\ Get(dispatched, test_rows[2].ID, 0) = 1
    /\ {test_rows[1].ID, test_rows[2].ID} \subseteq DOMAIN ai_results_cache
    /\ AppendedFrom = 0
    /\ Len(results) = 2 * Len(Suffixes)
    /\ results[1].ID[1] = test_rows[1].ID

\* the shared fields a step of the running process writes
Written ==
    { f \in {"processed_ids", "results", "ai_results_cache", "stats"} :
        \/ f = "processed_ids" /\ processed_ids' # processed_ids
        \/ f = "results" /\ results' # results
        \/ f = "ai_results_cache" /\ ai_results_cache' # ai_results_cache
        \/ f = "stats" /\ stats' # stats }

WritesUnderLock ==
    (pc \in {"ai", "retry", "gen"} /\ pc' # "off")
        => \A f \in Written : UnderStatsLock(pc, f)

\* the tasks of this run that the statistics count as accepted are the tasks
\* with an entry in the cache
CacheMatchesStats ==
    stats["ai_success"] = Cardinality(TaskIds(ai_tasks) \cap DOMAIN ai_results_cache)

FlushMatchesStats ==
    (pc # "off" /\ progress_file' # progress_file /\ Loads(progress_file'))
        => CacheMatchesStats'

LockedAndConsistent == WritesUnderLock /\ FlushMatchesStats

\* C16: in the initial pass, the retry rounds and the generate loop every
\* write of processed_ids, results, the oracle cache or the statistics is made
\* under the lock, and at every checkpoint flush the tasks counted in
\* ai_success are the tasks with an entry in the flushed cache
C16_SharedStateUnderLock == [][LockedAndConsistent]_vars

\* the second half of C16 alone
C16_FlushMatchesStats == [][FlushMatchesStats]_vars

\* the configured pool size, and the size of the pool of a retry round
HalfPool == IF MaxWorkers \div 2 >= 1 THEN MaxWorkers \div 2 ELSE 1

InFlightLimit(phase) ==
    IF phase \in {"ai", "ai_shutdown"} THEN MaxWorkers
    ELSE IF phase \in {"retry", "retry_shutdown"} THEN HalfPool
    ELSE 0

\* the cases with a future of the current pass that is queued, running or done
\* and not yet consumed
InPass(q) ==
    (IF q \in DOMAIN running THEN 1 ELSE 0)
    + Cardinality({ f \in finished : f.task.qid = q })
    + Cardinality({ k \in 1..Len(queue) : queue[k].qid = q })

PoolDiscipline ==
    /\ Cardinality(DOMAIN running') <= InFlightLimit(pc')
    /\ \A q \in TaskIds(ai_tasks) : InPass(q)' <= 1
    /\ (pc = "retry_head" /\ pc' = "retry") =>
          /\ queue = << >> /\ DOMAIN running = {} /\ finished = {}
          /\ Range(queue') \subseteq Range(failed_tasks)
          /\ TaskIds(queue') \cap DOMAIN ai_results_cache = {}

FeatureValues ==
    [num_neighbors : {0, 2, 3, 5}, handovers : {0, 2, 3, 4},
     max_speed : {0, T(41)}, avg_rb : {T(160), T(200)},
     has_pci_conflict : BOOLEAN,
     max_tilt : {T(5), T(25), T(30)}, min_tilt : {T(5), T(15), T(26)},
     total_tilt : {T(10), T(40), T(60)}, min_rsrp : {T(-95), -887, T(-85)}]

FeatureKeys ==
    {"num_neighbors", "handovers", "max_speed", "avg_rb", "has_pci_conflict",
     "max_tilt", "min_tilt", "total_tilt", "min_rsrp"}

\* the key sets a Features dict of the model has
FeatureDomains ==
    {FeatureKeys, FeatureKeys \ {"num_neighbors"}, {"num_neighbors"},
     {"num_neighbors", "handovers", "max_speed"}, {}}

Restrict(f, D) == [k \in D |-> f[k]]

\* option_mapping and default_options of the call
StandardOptionInputs ==
    {[option_mapping |-> extract_option_mapping(QStandardHigh), default_options |-> Digits],
     [option_mapping |-> EmptyMap, default_options |-> <<"A", "B">>],
     [option_mapping |-> EmptyMap, default_options |-> << >>]}

StandardInputs ==
    { [features |-> f, option_mapping |-> o.option_mapping,
       default_options |-> o.default_options] :
        f \in { Restrict(v, D) : v \in FeatureValues, D \in FeatureDomains } \cup {NoFeatures},
        o \in StandardOptionInputs }

InitStandard ==
    /\ test_rows = << >>
    /\ NothingRun
    /\ arg \in StandardInputs
    /\ ret = NoCall

ApplyStandard ==
    /\ ret = NoCall
    /\ ret' = [called |-> TRUE,
               out |-> solve_standard_question_with_confidence(
                           arg.features, arg.option_mapping, arg.default_options)]
    /\ UNCHANGED <<persistent, pc, i, memory, executor, arg>>

SpecStandard == InitStandard /\ [][ApplyStandard]_vars

\* C1: for every non-empty Features value with num_neighbors >= 3 the standard
\* classifier returns confidence high and the cause category overlap, whatever
\* the other fields are
C1_ManyNeighborsIsOverlap ==
    (ret.called /\ Truthy(arg.features) /\ Get(arg.features, "num_neighbors", 0) >= 3)
        => (ret.out.confidence = "high" /\ ret.out.cause_type = "overlap")

\* a call with 3 or more neighbours where rules 2, 4, 5 and 6 would match too
C1_Witness ==
    /\ ret.called
    /\ Truthy(arg.features)
    /\ Get(arg.features, "num_neighbors", 0) >= 3
    /\ Get(arg.features, "handovers", 0) >= 3
    /\ Get(arg.features, "max_speed", 0) > T(40)
    /\ Get(arg.features, "avg_rb", T(200)) < T(170)
    /\ Get(arg.features, "has_pci_conflict", FALSE)
    /\ ret.out.cause_type = "overlap"

\* the predicates in the order neighbour count, handovers, speed, resource
\* average, conflict flag, tilt predicates, RSRP-floor predicate, residual
\* predicates, each with its category and confidence
Pred(holds, cause_type, confidence) ==
    [holds |-> holds, cause_type |-> cause_type, confidence |-> confidence]

OrderedPredicates(f) ==
    LET num_neighbors == Get(f, "num_neighbors", 0)
        handovers     == Get(f, "handovers", 0)
        max_speed     == Get(f, "max_speed", 0)
        avg_rb        == Get(f, "avg_rb", T(200))
        conflict      == Get(f, "has_pci_conflict", FALSE)
        min_rsrp      == Get(f, "min_rsrp", T(-80))
        max_tilt      == Get(f, "max_tilt", 0)
        min_tilt      == Get(f, "min_tilt", 0)
        total_tilt    == Get(f, "total_tilt", 0)
    IN  <<Pred(num_neighbors >= 3, "overlap", "high"),
          Pred(handovers >= 3, "handover", "high"),
          Pred(handovers = 2, "overshoot", "high"),
          Pred(max_speed > T(40), "high_speed", "high"),
          Pred(avg_rb < T(170), "low_rb", "high"),
          Pred(conflict, "pci_conflict", "high"),
          Pred(max_tilt < T(12), "neighbor_higher", "high"),
          Pred(total_tilt < T(19), "neighbor_higher", "high"),
          Pred(min_tilt < T(6), "neighbor_higher", "high"),
          Pred(min_tilt < T(10) /\ min_rsrp > T(-89), "neighbor_higher", "high"),
          Pred(max_tilt > T(29), "weak_coverage", "high"),
          Pred(total_tilt > T(52), "weak_coverage", "high"),
          Pred(min_tilt > T(25), "weak_coverage", "high"),
          Pred(min_rsrp < T(-90), "weak_coverage", "high"),
          Pred(min_rsrp < -885 /\ total_tilt > T(39) /\ max_tilt >= T(22),
               "weak_coverage", "low"),
          Pred(min_tilt < T(10) \/ total_tilt <= T(35), "neighbor_higher", "low"),
          Pred(TRUE, "neighbor_higher", "low")>>

FirstMatch(preds) == preds[SetMin({ k \in 1..Len(preds) : preds[k].holds })]

\* C22: for every non-empty Features value the standard classifier returns
\* the category and the confidence of the first predicate that holds in the
\* fixed order; a later predicate decides only when every earlier one is false
C22_FirstMatchingPredicateWins ==
    (ret.called /\ Truthy(arg.features)) =>
        /\ ret.out.cause_type = FirstMatch(OrderedPredicates(arg.features)).cause_type
        /\ ret.out.confidence = FirstMatch(OrderedPredicates(arg.features)).confidence

\* handovers >= 3 with fewer than 3 neighbours, while the speed, resource and
\* conflict predicates hold too: handover, high
C22_Witness ==
    /\ ret.called
    /\ Truthy(arg.features)
    /\ Get(arg.features, "num_neighbors", 0) < 3
    /\ Get(arg.features, "handovers", 0) = 4
    /\ Get(arg.features, "max_speed", 0) > T(40)
    /\ Get(arg.features, "avg_rb", T(200)) < T(170)
    /\ Get(arg.features, "has_pci_conflict", FALSE)
    /\ Get(arg.features, "min_rsrp", T(-80)) < T(-90)
    /\ ret.out.cause_type = "handover"
    /\ ret.out.confidence = "high"

(***************************************************************************)
(* SpecRow: the rule stage applied on its own to questions whose lines     *)
(* mix the three label formats, with and without a description.            *)
(***************************************************************************)
MaxLines == 2

WideLabels == {"1", "7", "A", "B", "A1"}

WideDescs ==
    {"", "other", "rf parameters lead to weak coverage",
     "neighboring cell provides higher throughput", "severe overlapping coverage"}

WideLines == { Line(id, desc) : id \in WideLabels, desc \in WideDescs }

LineSeqs == UNION { [1..n -> WideLines] : n \in 0..MaxLines }

WithLines(question, lines) == [question EXCEPT !.lines = lines]

RowInputs == { WithLines(q, ls) : q \in Catalogue, ls \in LineSeqs }

\* the classifier call of the standard and the nonstandard_telecom branch
\* (solver.py lines 128 and 171)
ClassifierCall(question, options, option_mapping) ==
    IF get_question_type(question) = "standard"
    THEN solve_standard_question_with_confidence(
             extract_features(question), option_mapping, options)
    ELSE solve_nonstandard_telecom_with_confidence(question, option_mapping, options)

InitRow ==
    /\ test_rows = << >>
    /\ NothingRun
    /\ arg \in RowInputs
    /\ ret = NoCall

ApplyClassifier ==
    /\ ret = NoCall
    /\ get_question_type(arg) # "nonstandard_other"
    /\ ret' = [called |-> TRUE, kind |-> "classifier",
               options |-> extract_options_from_question(arg),
               solved |-> ClassifierCall(arg, extract_options_from_question(arg),
                                         extract_option_mapping(arg))]
    /\ UNCHANGED <<persistent, pc, i, memory, executor, arg>>

ApplyRuleRow ==
    /\ ret = NoCall
    /\ ret' = [called |-> TRUE, kind |-> "row", data |-> RuleRowData(arg)]
    /\ UNCHANGED <<persistent, pc, i, memory, executor, arg>>

NextRow == ApplyClassifier \/ ApplyRuleRow

SpecRow == InitRow /\ [][NextRow]_vars

\* C4: the option a rule classifier chooses, and the answer the rule stage
\* records after the incomplete-option re-resolution, is one of the labels
\* extract_options_from_question returns for the case
C4_RuleAnswerAmongOptions ==
    /\ (ret.called /\ ret.kind = "classifier")
           => ret.solved.answer \in Range(ret.options)
    /\ (ret.called /\ ret.kind = "row")
           => ret.data.rule_answer \in Range(ret.data.options)

\* C5: the extracted option labels and the excluded options of a case all
\* lie in the alphabet A..I the remaining candidates are computed from
C5_LabelsWithinAlphabet ==
    (ret.called /\ ret.kind = "row")
        => (Range(ret.data.options) \cup Range(ret.data.excluded_opts)) \subseteq FullAlphabet

\* a standard row whose option set is not the full set
IncompleteStandardRow ==
    /\ ret.called /\ ret.kind = "row"
    /\ ret.data.question_type = "standard"
    /\ Len(ret.data.options) # FullOptionCount

\* the cause code of the category the classifier computed for the row
ComputedCode == CauseCode(ret.data.cause_type)

\* the confusable categories that have an option in the row's back-mapping
Confusable == {"C1", "C3"} \cap DOMAIN get_cause_to_option_reverse_map(arg)

ReResolvedByLadder ==
    LET back == get_cause_to_option_reverse_map(arg)
    IN  IF ComputedCode \in DOMAIN back THEN ret.data.rule_answer = back[ComputedCode]
        ELSE IF Cardinality(Confusable) = 1
             THEN \E c \in Confusable : ret.data.rule_answer = back[c]
        ELSE IF Cardinality(Confusable) = 2
             THEN ComputedCode \in Confusable /\ ret.data.rule_answer = back[ComputedCode]
        ELSE ret.data.rule_answer = Head(ret.data.options)

ReResolvedAmongOptions == ret.data.rule_answer \in Range(ret.data.options)

\* C23: for a standard row with an incomplete option set the answer is the
\* option of the computed category when the back-mapping has it; else the
\* option of the one confusable category (C1, C3) that has an option; else,
\* when both have one, the option of the computed category; else the first
\* listed option; and the answer is one of the options of the row
C23_IncompleteSetReResolved ==
    IncompleteStandardRow => (ReResolvedByLadder /\ ReResolvedAmongOptions)

\* the first half of C23 alone, and the second half alone
C23_Ladder == IncompleteStandardRow => ReResolvedByLadder

C23_AmongOptions == IncompleteStandardRow => ReResolvedAmongOptions

(***************************************************************************)
(* SpecLoad: runs that find an artifact at the checkpoint path and a trace  *)
(* log of an earlier run.                                                   *)
(***************************************************************************)
\* a JSON object without the three keys of a checkpoint
WrongShape == [version |-> "1"]

\* a JSON value that is not an object
NotADict == [not_dict |-> TRUE]

\* a file of zero bytes
EmptyFile == Truncated({}, << >>, 0)

\* the checkpoint of a run that completed the first case
EarlierCheckpoint == Checkpoint({"q1"}, OutputRows("q1", "A"), EmptyMap)

\* the checkpoint of a run that was interrupted before anything was accepted
BlankCheckpoint == Checkpoint({}, << >>, EmptyMap)

FoundArtifacts ==
    { << >>, <<WrongShape>>, <<NotADict>>, <<EmptyFile>>,
      <<Truncated({"q1"}, OutputRows("q1", "A"), 2)>>,
      <<BlankCheckpoint>>, <<EarlierCheckpoint>> }

EarlierLog ==
    <<[id |-> "q1", type |-> "standard", rule |-> "earlier run", answer |-> "A",
       needs_ai |-> FALSE]>>

InitLoad ==
    /\ test_rows \in Datasets(1)
    /\ progress_file \in FoundArtifacts
    /\ log_file = EarlierLog
    /\ submission_file = << >>
    /\ runs = 0
    /\ pc = "off"
    /\ MemoryOff
    /\ arg = NoCall
    /\ ret = NoCall

SpecLoad == InitLoad /\ [][Next]_vars

\* has the content the three keys of a checkpoint
ExpectedShape(content) ==
    IsDict(content) /\ {"processed_ids", "results", "ai_results"} \subseteq DOMAIN content

Invalid(file) == IF file = << >> THEN FALSE ELSE ~ExpectedShape(file[1])

\* absent, of zero bytes, or a checkpoint that records nothing
AbsentOrEmpty(file) ==
    IF file = << >> THEN TRUE ELSE file[1] \in {EmptyFile, BlankCheckpoint}

\* a run begins with nothing loaded and the trace log cleared
FreshStart ==
    /\ pc = "off" /\ pc' = "rules"
    /\ processed_ids' = {} /\ results' = << >> /\ DOMAIN ai_results_cache' = {}
    /\ log_file' = << >>

InvalidArtifactKept ==
    /\ FreshStart => AbsentOrEmpty(progress_file)
    /\ Invalid(progress_file) =>
          /\ ~(pc = "off" /\ pc' = "rules")
          /\ progress_file' = progress_file
          /\ log_file' = log_file

\* C17: a run starts fresh, with nothing loaded and the trace log cleared,
\* only when the checkpoint artifact is absent or empty; when the artifact is
\* present but unparsable or not of the expected shape, no run proceeds and
\* the artifact is neither discarded nor overwritten
C17_InvalidArtifactKept == [][InvalidArtifactKept]_vars

(***************************************************************************)
(* SpecFeatures: extract_features and the standard cascade over bounded    *)
(* telemetry tables.                                                       *)
(***************************************************************************)
DtColumns == {"speed", "pci", "n1", "rb", "rsrp"}

\* the columns the header of the drive-test table may lack
MissingColumns == { {}, {"rsrp"}, {"speed", "rb"}, {"n1"} }

\* one drive-test row; a cell that does not parse is << >>
DtRows ==
    { DtRow(speed, <<100>>, n1, rb, rsrp) :
        speed \in { <<T(30)>>, << >> },
        n1    \in { <<101>>, << >> },
        rb    \in { <<T(200)>>, << >> },
        rsrp  \in { <<T(-85)>>, << >> } }

\* the engineering table: empty, a row for the serving cell with tilts 13
\* and 8, the same row with a mechanical tilt that does not parse, and a row
\* of another cell
EngTables ==
    { << >>,
      <<[pci |-> <<100>>, md |-> <<T(13)>>, dt |-> <<T(8)>>]>>,
      <<[pci |-> <<100>>, md |-> << >>, dt |-> <<T(8)>>]>>,
      <<[pci |-> <<7>>, md |-> <<T(13)>>, dt |-> <<T(8)>>]>> }

FeatureQuestions ==
    { Question(TRUE, TRUE, StandardLines, <<Restrict(r, DtColumns \ m)>>, e, << >>) :
        r \in DtRows, m \in MissingColumns, e \in EngTables }

InitFeatures ==
    /\ test_rows = << >>
    /\ NothingRun
    /\ arg \in FeatureQuestions
    /\ ret = NoCall

ApplyFeatures ==
    /\ ret = NoCall
    /\ ret' = [called |-> TRUE,
               features |-> extract_features(arg),
               rule |-> StandardCascade(extract_features(arg))]
    /\ UNCHANGED <<persistent, pc, i, memory, executor, arg>>

SpecFeatures == InitFeatures /\ [][ApplyFeatures]_vars

\* the values of a column that were present and parsed
Contributed(question, col) == Parsed(question.dt_records, col, << >>)

\* the tilts that were present and parsed
ContributedTilts(question) ==
    ServingTilts(Contributed(question, "pci"), PciToEng(question.eng_records))

\* the Features fields no value of the tables contributed to
Unfed(question) ==
    (IF Contributed(question, "rsrp") = << >> THEN {"min_rsrp", "avg_rsrp"} ELSE {})
    \cup (IF ContributedTilts(question) = << >> THEN {"max_tilt", "min_tilt"} ELSE {})
    \cup (IF Contributed(question, "speed") = << >> THEN {"max_speed"} ELSE {})
    \cup (IF Contributed(question, "rb") = << >> THEN {"avg_rb"} ELSE {})

\* the fields the predicate of a rule compares with a threshold
ThresholdFields(rule_desc) ==
    CASE rule_desc = "Rule 4" -> {"max_speed"}
      [] rule_desc = "Rule 5" -> {"avg_rb"}
      [] rule_desc \in {"Rule 7", "Rule 12"} -> {"max_tilt"}
      [] rule_desc \in {"Rule 9", "Rule 14"} -> {"min_tilt"}
      [] rule_desc = "Rule 10" -> {"min_tilt", "min_rsrp"}
      [] rule_desc = "Rule 11" -> {"min_rsrp"}
      [] OTHER -> {}

\* C18: a Features field no value contributed to (its column is missing, or
\* no cell of it parses) is absent from the Features value, and the rule that
\* fires compares no such field with its threshold
C18_UnfedFieldsAbsent ==
    (ret.called /\ ~IsNone(ret.features))
        => /\ Unfed(arg) \cap DOMAIN ret.features = {}
           /\ Unfed(arg) \cap ThresholdFields(ret.rule.rule_desc) = {}

\* the second half of C18 alone
C18_NoRuleOnSubstitute ==
    (ret.called /\ ~IsNone(ret.features))
        => Unfed(arg) \cap ThresholdFields(ret.rule.rule_desc) = {}

(***************************************************************************)
(* case_library.py: compute_similarity.  A case-features value is a        *)
(* function from attribute names to cells, <<v>> for a number and << >>    *)
(* for None; min_rsrp, max_tilt, total_tilt, max_speed and avg_rb are in   *)
(* tenths, handovers and num_neighbors are counts.  The score is the exact *)
(* fraction num/den.                                                       *)
(***************************************************************************)
WeightKeys ==
    <<"min_rsrp", "max_tilt", "total_tilt", "handovers", "max_speed", "avg_rb",
      "num_neighbors">>

\* weights, doubled (2.0, 2.0, 1.5, 1.5, 1.0, 1.0, 1.0)
Weights2 ==
    [min_rsrp |-> 4, max_tilt |-> 4, total_tilt |-> 3, handovers |-> 3,
     max_speed |-> 2, avg_rb |-> 2, num_neighbors |-> 2]

\* normalizers, in the unit of the attribute
Normalizers ==
    [min_rsrp |-> T(30), max_tilt |-> T(20), total_tilt |-> T(50), handovers |-> 5,
     max_speed |-> T(50), avg_rb |-> T(100), num_neighbors |-> 5]

\* a common multiple of the normalizers, the denominator of every "sim"
SimScale == 3000

Abs(x) == IF x < 0 THEN -x ELSE x

\* "sim" without the max(0, .)
AttrSim_NoClamp(v1, v2, key) ==
    (Normalizers[key] - Abs(v1 - v2)) * (SimScale \div Normalizers[key])

\* sim = max(0, 1 - abs(v1 - v2) / normalizer), as a multiple of 1/SimScale
AttrSim(v1, v2, key) ==
    IF Abs(v1 - v2) >= Normalizers[key] THEN 0
    ELSE (Normalizers[key] - Abs(v1 - v2)) * (SimScale \div Normalizers[key])

\* features.get(key): None for a key the dict lacks
Attr(features, key) == Get(features, key, << >>)

\* the keys with "v1 is not None and v2 is not None"
CommonKeys(features1, features2) ==
    { k \in Range(WeightKeys) : Attr(features1, k) # << >> /\ Attr(features2, k) # << >> }

Fraction(num, den) == [num |-> num, den |-> den]

compute_similarity(features1, features2) ==
    IF ~Truthy(features1) \/ ~Truthy(features2) THEN Fraction(0, 1)
    ELSE LET counted(k) == WeightKeys[k] \in CommonKeys(features1, features2)
             term(k)    == IF counted(k)
                           THEN Weights2[WeightKeys[k]] *
                                AttrSim(Attr(features1, WeightKeys[k])[1],
                                        Attr(features2, WeightKeys[k])[1], WeightKeys[k])
                           ELSE 0
             weight(k)  == IF counted(k) THEN Weights2[WeightKeys[k]] ELSE 0
             similarity   == SeqSum([k \in 1..Len(WeightKeys) |-> term(k)])
             total_weight == SeqSum([k \in 1..Len(WeightKeys) |-> weight(k)])
         IN  IF total_weight > 0 THEN Fraction(similarity, SimScale * total_weight)
             ELSE Fraction(0, 1)

(***************************************************************************)
(* SpecSimilarity: compute_similarity over bounded pairs of features.      *)
(***************************************************************************)
\* a near value, a far value (beyond the normalizer) and None
SimCells(key) ==
    CASE key = "min_rsrp"      -> { <<T(-85)>>, <<T(-120)>>, << >> }
      [] key = "max_tilt"      -> { <<T(10)>>, <<T(31)>>, << >> }
      [] key = "total_tilt"    -> { <<T(20)>>, <<T(45)>>, << >> }
      [] key = "handovers"     -> { <<0>>, <<2>>, << >> }
      [] key = "max_speed"     -> { <<T(30)>>, <<T(90)>>, << >> }
      [] key = "avg_rb"        -> { <<T(200)>>, <<T(150)>>, << >> }
      [] key = "num_neighbors" -> { <<1>>, <<7>>, << >> }

SimDomains ==
    { {}, {"total_tilt"}, {"min_rsrp", "max_tilt"}, {"max_tilt", "handovers"},
      {"max_speed", "avg_rb", "num_neighbors"} }

SimFeatures ==
    {NoFeatures} \cup
    UNION { { f \in [D -> UNION { SimCells(key) : key \in D }] :
                \A key \in D : f[key] \in SimCells(key) } : D \in SimDomains }

InitSimilarity ==
    /\ test_rows = << >>
    /\ NothingRun
    /\ arg \in { [features1 |-> f1, features2 |-> f2] : f1, f2 \in SimFeatures }
    /\ ret = NoCall

ApplySimilarity ==
    /\ ret = NoCall
    /\ ret' = [called |-> TRUE,
               out |-> compute_similarity(arg.features1, arg.features2),
               swapped |-> compute_similarity(arg.features2, arg.features1)]
    /\ UNCHANGED <<persistent, pc, i, memory, executor, arg>>

SpecSimilarity == InitSimilarity /\ [][ApplySimilarity]_vars

\* the features cut down to the attributes both have
OnCommon(features, other) ==
    IF IsNone(features) \/ IsNone(other) THEN NoFeatures
    ELSE Restrict(features, CommonKeys(features, other))

\* C19: compute_similarity gives the same score for (a, b) and (b, a), the
\* score is between 0 and 1, it is 0 when no attribute is present in both,
\* and it is the score of the two values cut down to the attributes both
\* have: an attribute missing on either side adds to neither the sum nor the
\* total weight
C19_SimilaritySymmetricBounded ==
    ret.called =>
        /\ ret.out = ret.swapped
        /\ 0 <= ret.out.num /\ ret.out.num <= ret.out.den /\ ret.out.den > 0
        /\ (IsNone(arg.features1) \/ IsNone(arg.features2)
            \/ CommonKeys(arg.features1, arg.features2) = {}) => ret.out.num = 0
        /\ ret.out = compute_similarity(OnCommon(arg.features1, arg.features2),
                                        OnCommon(arg.features2, arg.features1))

\* two different values with a shared attribute beyond the normalizer, a
\* shared attribute within it, and an attribute only one of them has
C19_Witness ==
    /\ ret.called
    /\ arg.features1 # arg.features2
    /\ 0 < ret.out.num /\ ret.out.num < ret.out.den
    /\ \E key \in CommonKeys(arg.features1, arg.features2) :
          Abs(arg.features1[key][1] - arg.features2[key][1]) > Normalizers[key]
    /\ \E key \in DOMAIN arg.features1 :
          arg.features1[key] # << >> /\ Attr(arg.features2, key) = << >>

(***************************************************************************)
(* SpecAnswer: extract_ai_answer over bounded response texts and option    *)
(* lists.                                                                  *)
(***************************************************************************)
AnswerLabels == {"A", "B", "1", "A1", "B2", "Z"}

\* group(1) of the patterns that match, at most MaxCaptures of them
MaxCaptures == 2

CaptureSeqs == UNION { [1..n -> AnswerLabels] : n \in 0..MaxCaptures }

\* a text that is one bare label is its own first line and only word, and
\* no pattern matches it
BareTexts == { Text(l, << >>, l, {l}) : l \in AnswerLabels }

\* whitespace only: truthy, and empty once stripped
BlankText == Text("", << >>, "", {})

LongTexts ==
    { Text("", c, f, w) : c \in CaptureSeqs, f \in {"", "A1", "B", "Z"},
                          w \in {{}, {"B"}, {"1", "A"}, {"Z"}} }

ResponseTexts == {EmptyResponse, BlankText} \cup BareTexts \cup LongTexts

OptionLists == { <<"A", "B", "C">>, <<"1", "2">>, <<"A1", "B2">>, <<"B">> }

InitAnswer ==
    /\ test_rows = << >>
    /\ NothingRun
    /\ arg \in { [response_text |-> t, valid_options |-> o] :
                    t \in ResponseTexts, o \in OptionLists }
    /\ ret = NoCall

ApplyAnswer ==
    /\ ret = NoCall
    /\ ret' = [called |-> TRUE,
               out |-> extract_ai_answer(arg.response_text, arg.valid_options)]
    /\ UNCHANGED <<persistent, pc, i, memory, executor, arg>>

SpecAnswer == InitAnswer /\ [][ApplyAnswer]_vars

\* C20: for every response text, the empty one included, and every non-empty
\* list of valid options, extract_ai_answer returns an element of the list
C20_AnswerIsValidOption ==
    (ret.called /\ arg.valid_options # << >>) => ret.out \in Range(arg.valid_options)

\* the first capture is no valid option but is part of one, which is returned
\* although it is not the first of the list
C20_Witness ==
    /\ ret.called
    /\ arg.response_text.captures # << >>
    /\ Head(arg.response_text.captures) \notin Range(arg.valid_options)
    /\ ret.out \in Range(arg.valid_options)
    /\ ret.out # Head(arg.valid_options)
    /\ IsSub(Head(arg.response_text.captures), ret.out)

\* what each rung yields for the call, "" when it yields nothing
YieldExact ==
    IF ~arg.response_text.empty /\ arg.response_text.strip \in Range(arg.valid_options)
    THEN arg.response_text.strip ELSE ""

YieldTagged ==
    IF arg.response_text.empty THEN ""
    ELSE PatternRung(arg.response_text.captures, arg.valid_options)

YieldPrefix ==
    LET hits == { k \in 1..Len(arg.valid_options) :
                     StartsWith(arg.response_text.first, arg.valid_options[k]) }
    IN  IF arg.response_text.empty \/ hits = {} THEN "" ELSE arg.valid_options[SetMin(hits)]

YieldWord ==
    LET hits == { k \in 1..Len(arg.valid_options) :
                     arg.valid_options[k] \in arg.response_text.words }
    IN  IF arg.response_text.empty \/ hits = {} THEN "" ELSE arg.valid_options[SetMin(hits)]

\* C21: extract_ai_answer returns what the first rung that yields a valid
\* option yields, the rungs taken in the order exact match, tagged patterns in
\* list order, prefix of the first line, word in the whole text, first valid
\* option; a tagged capture that is a valid option is returned unless the
\* whole text is itself an option
C21_FirstYieldingRungWins ==
    (ret.called /\ arg.valid_options # << >>) =>
        ret.out = (IF YieldExact # "" THEN YieldExact
                   ELSE IF YieldTagged # "" THEN YieldTagged
                   ELSE IF YieldPrefix # "" THEN YieldPrefix
                   ELSE IF YieldWord # "" THEN YieldWord
                   ELSE Head(arg.valid_options))

\* "The answer is: B" with the options A, B, C: the capture of the tagged
\* pattern is B, the first line begins with no option, the word B occurs
C21_Witness ==
    /\ ret.called
    /\ arg.response_text = Text("", <<"B">>, "", {"B"})
    /\ arg.valid_options = <<"A", "B", "C">>
    /\ ret.out = "B"

(***************************************************************************)
(* SpecTelecom: the rule loop body on nonstandard-telecom questions with   *)
(* bounded tables and option lines.                                        *)
(***************************************************************************)
\* the serving PCI column of the table: no, one and three handovers
PciPatterns == { <<5>>, <<5, 6>>, <<5, 6, 5, 6>> }

\* a table whose rows differ in the serving PCI only
NtTables ==
    { [k \in 1..Len(p) |-> NtRow(rsrp, sinr, cce, <<p[k]>>)] :
        p \in PciPatterns,
        rsrp \in { <<T(-90)>>, <<T(-105)>> },
        sinr \in { <<T(5)>>, <<T(10)>>, <<T(15)>>, << >> },
        cce  \in { <<10>>, <<50>> } }

MoreTelecomLines ==
    <<Line("A", "missing neighbor configuration"),
      Line("B", "severe overlapping coverage"),
      Line("C", "pdcch resource management parameters unreasonable"),
      Line("D", "test server or transport anomaly"),
      Line("E", "rf parameters lead to weak coverage"),
      Line("F", "intra-frequency handover threshold is too low")>>

TelecomQuestions ==
    { Question(FALSE, TRUE, ls, << >>, << >>, t) :
        ls \in {TelecomLines, MoreTelecomLines, << >>}, t \in NtTables }

InitTelecom ==
    /\ test_rows = << >>
    /\ NothingRun
    /\ arg \in TelecomQuestions
    /\ ret = NoCall

SpecTelecom == InitTelecom /\ [][ApplyRuleRow]_vars

\* does one of the three high confidence predicates hold for the table
HighFires ==
    \/ NtFeatures(arg).min_rsrp < T(-100)
    \/ NtFeatures(arg).handovers >= 3
    \/ NtFeatures(arg).max_cce > 40

\* the ruled-out categories; the category overlap has the two keys overlap
\* and overlap_rf of the keyword tables
RuledOut ==
    {"weak_coverage_rf", "threshold_low", "pdcch"}
    \cup (IF NtFeatures(arg).handovers > 0 THEN {"neighbor_missing"} ELSE {})
    \cup (IF MeanSinrGt(NtFeatures(arg), 12) THEN {"overlap", "overlap_rf"} ELSE {})
    \cup (IF MeanSinrGt(NtFeatures(arg), 8)
          THEN {"transport_anomaly", "uplink_issue"} ELSE {})

\* C24: when none of the three high confidence predicates holds the row has
\* confidence low, is escalated, an option is excluded exactly when a
\* ruled-out category maps to it, and the candidates of its task are the
\* alphabet minus the excluded options; when one holds the row has
\* confidence high, excludes nothing and is not escalated
C24_EliminationExcludesRuledOut ==
    (ret.called /\ ret.data.question_type = "nonstandard_telecom") =>
        IF HighFires
        THEN /\ ret.data.confidence = "high"
             /\ ret.data.excluded_opts = << >>
             /\ ~ret.data.needs_ai
        ELSE /\ ret.data.confidence = "low"
             /\ ret.data.needs_ai
             /\ Range(ret.data.excluded_opts) =
                   { extract_option_mapping(arg)[c] :
                        c \in RuledOut \cap DOMAIN extract_option_mapping(arg) }
             /\ Range(MakeTask("q", ret.data).options)
                   = FullAlphabet \ Range(ret.data.excluded_opts)
             /\ Range(MakeTask("q", ret.data).options) \cap Range(ret.data.excluded_opts) = {}

\* one handover and a mean SINR of 15: missing neighbour, overlap and
\* transport anomaly are ruled out next to the three high categories
C24_Witness ==
    /\ ret.called
    /\ ~HighFires
    /\ arg.lines = MoreTelecomLines
    /\ NtFeatures(arg).handovers = 1
    /\ MeanSinrGt(NtFeatures(arg), 12)
    /\ ret.data.excluded_opts = <<"A", "B", "C", "D", "E", "F">>
    /\ ret.data.remaining_opts = <<"G", "H", "I">>


(***************************************************************************)
(* SpecScan: the row scan of parse_drive_test_data over the lines that     *)
(* follow the telemetry header.  A line is what the scan tests of it:      *)
(* whether it holds the separator, whether it starts with gNodeB, whether  *)
(* it holds the word Engineering, and into how many parts the separator    *)
(* splits it.                                                              *)
(***************************************************************************)
MaxScan == 3

ScanLine(sep, gnodeb, engineering, parts) ==
    [sep |-> sep, gnodeb |-> gnodeb, engineering |-> engineering, parts |-> parts]

HeaderWidths == {4, 5}

ScanLines ==
    { ScanLine(FALSE, g, e, 1) : g, e \in BOOLEAN }
    \cup { ScanLine(TRUE, g, e, n) : g, e \in BOOLEAN, n \in HeaderWidths }

ScanInputs == UNION { [1..n -> ScanLines] : n \in 0..MaxScan }

\* if '|' not in line or line.strip().startswith('gNodeB') or 'Engineering' in line: break
StopsScan(line) == ~line.sep \/ line.gnodeb \/ line.engineering

\* the positions of the lines that become records (lines 168-176)
RECURSIVE ScanFrom(_, _, _)
ScanFrom(lines, k, headers) ==
    IF k > Len(lines) \/ StopsScan(lines[k]) THEN << >>
    ELSE (IF lines[k].parts = headers THEN <<k>> ELSE << >>)
         \o ScanFrom(lines, k + 1, headers)

drive_test_records(lines, headers) == ScanFrom(lines, 1, headers)

InitScan ==
    /\ test_rows = << >>
    /\ NothingRun
    /\ arg \in { [lines |-> l, headers |-> h] : l \in ScanInputs, h \in HeaderWidths }
    /\ ret = NoCall

ApplyScan ==
    /\ ret = NoCall
    /\ ret' = [called |-> TRUE, out |-> drive_test_records(arg.lines, arg.headers)]
    /\ UNCHANGED <<persistent, pc, i, memory, executor, arg>>

SpecScan == InitScan /\ [][ApplyScan]_vars

\* a line without the separator, or one whose column count is not the header's
StructurallyInvalid(line, headers) == ~line.sep \/ line.parts # headers

\* the header of the second table
SecondHeader(line) == line.gnodeb

EndOfScan(lines, headers) ==
    { k \in 1..Len(lines) :
        StructurallyInvalid(lines[k], headers) \/ SecondHeader(lines[k]) }

\* C26: the row scan ends at the first structurally invalid row (no separator,
\* or a column count other than the header's) or at the second table's
\* header: no line after it contributes a record
C26_ScanEndsAtFirstInvalidRow ==
    ret.called =>
        \A k \in Range(ret.out) :
            \A j \in EndOfScan(arg.lines, arg.headers) : k < j

\* no line after the first line that lacks the separator, starts with gNodeB
\* or holds the word Engineering contributes a record
C26_ScanEndsAtBreak ==
    ret.called =>
        \A k \in Range(ret.out) :
            \A j \in 1..Len(arg.lines) : StopsScan(arg.lines[j]) => k < j


(***************************************************************************)
(* SpecSimilar: find_similar_cases.  CASE_LIBRARY is the sequence of its   *)
(* entries in the order of the dict; the id of an entry is its position.   *)
(***************************************************************************)
MaxLibrary == 5

CaseFeatures == { [total_tilt |-> <<T(20)>>], [total_tilt |-> <<T(45)>>] }

CaseEntries == { [features |-> f, answer |-> a] : f \in CaseFeatures, a \in {"A", "B"} }

Libraries == UNION { [1..n -> CaseEntries] : n \in 0..MaxLibrary }

\* a >= b for two quotients with positive denominators
Geq(a, b) == a.num * b.den >= b.num * a.den

\* similarities.sort(key=lambda x: x[1], reverse=True): descending, and
\* entries of equal similarity keep the order they had
RECURSIVE SortedBySimilarity(_)
SortedBySimilarity(similarities) ==
    IF similarities = << >> THEN << >>
    ELSE LET last == similarities[Len(similarities)]
             rest == SortedBySimilarity(SubSeq(similarities, 1, Len(similarities) - 1))
             keep == { j \in 1..Len(rest) : Geq(rest[j].similarity, last.similarity) }
             at   == Cardinality(keep)
         IN  SubSeq(rest, 1, at) \o <<last>> \o SubSeq(rest, at + 1, Len(rest))

\* every entry is admitted, whatever its answer
Admits_Any(result, seen_answers, answer) == TRUE

\* if answer not in seen_answers or len(result) < 3
Admits(result, seen_answers, answer) ==
    answer \notin seen_answers \/ Len(result) < 3

\* the selection loop (lines 190-204) from position k of the ranking
RECURSIVE SelectFrom(_, _, _, _, _)
SelectFrom(similarities, k, n, result, seen_answers) ==
    IF k > Len(similarities) \/ Len(result) >= n THEN result
    ELSE IF Admits(result, seen_answers, similarities[k].answer)
         THEN SelectFrom(similarities, k + 1, n, Append(result, similarities[k]),
                         seen_answers \cup {similarities[k].answer})
         ELSE SelectFrom(similarities, k + 1, n, result, seen_answers)

find_similar_cases(library, features, n) ==
    IF ~Truthy(features) \/ library = << >> THEN << >>
    ELSE LET similarities ==
                 [c \in 1..Len(library) |->
                     [id |-> c,
                      similarity |-> compute_similarity(features, library[c].features),
                      answer |-> library[c].answer]]
         IN  SelectFrom(SortedBySimilarity(similarities), 1, n, << >>, {})

InitSimilar ==
    /\ test_rows = << >>
    /\ NothingRun
    /\ arg \in { [library |-> l, features |-> f, n |-> n] :
                   l \in Libraries,
                   f \in {NoFeatures, [total_tilt |-> <<T(20)>>]},
                   n \in {1, 4, 5} }
    /\ ret = NoCall

ApplySimilar ==
    /\ ret = NoCall
    /\ ret' = [called |-> TRUE,
               out |-> find_similar_cases(arg.library, arg.features, arg.n)]
    /\ UNCHANGED <<persistent, pc, i, memory, executor, arg>>

SpecSimilar == InitSimilar /\ [][ApplySimilar]_vars

\* the answers of the entries selected before position k
AnswersBefore(out, k) == { out[j].answer : j \in 1..(k - 1) }

\* the library entries that were not selected
NotSelected(library, out) ==
    { c \in 1..Len(library) : \A j \in 1..Len(out) : out[j].id # c }

\* C27: find_similar_cases returns at most n entries of the library, each with
\* its similarity to the question, in non-increasing similarity order; an
\* entry at position 4 or later has an answer no earlier entry has; the
\* selection ends only with n entries or with the library exhausted (every
\* entry left out repeats a selected answer, three slots being filled); the
\* result is empty when the library is empty
C27_TopNDiverse ==
    ret.called =>
        LET out == ret.out
        IN  /\ Len(out) <= arg.n
            /\ \A k \in 1..Len(out) :
                  /\ out[k].id \in 1..Len(arg.library)
                  /\ out[k].answer = arg.library[out[k].id].answer
                  /\ out[k].similarity =
                        compute_similarity(arg.features, arg.library[out[k].id].features)
                  /\ \A j \in 1..(k - 1) :
                        /\ out[j].id # out[k].id
                        /\ Geq(out[j].similarity, out[k].similarity)
                  /\ k >= 4 => out[k].answer \notin AnswersBefore(out, k)
            /\ (Truthy(arg.features) /\ Len(out) < arg.n) =>
                  \A c \in NotSelected(arg.library, out) :
                      /\ Len(out) >= 3
                      /\ arg.library[c].answer \in AnswersBefore(out, Len(out) + 1)
            /\ arg.library = << >> => out = << >>

\* five cases, n = 5: the ranking moves the first case of the library down,
\* three slots repeat an answer, the fourth brings a new one and the case
\* left out repeats an answer
C27_Witness ==
    /\ ret.called
    /\ arg.n = 5
    /\ Len(arg.library) = 5
    /\ Len(ret.out) = 4
    /\ ret.out[1].id # 1
    /\ ~Geq(ret.out[4].similarity, ret.out[1].similarity)
    /\ ret.out[1].answer = ret.out[2].answer
    /\ ret.out[2].answer = ret.out[3].answer
    /\ ret.out[4].answer # ret.out[1].answer


(***************************************************************************)
(* SpecConflict: extract_features on telemetry of up to two records whose  *)
(* serving and top-neighbor identifiers are 100, 101 and 130 (130 has the  *)
(* residue of 100), or do not parse.                                       *)
(***************************************************************************)
ConflictRows ==
    { DtRow(<<T(30)>>, pci, n1, <<T(200)>>, <<T(-85)>>) :
        pci \in { <<100>>, <<130>>, << >> },
        n1  \in { <<100>>, <<101>>, <<130>>, << >> } }

ConflictQuestions ==
    { Question(TRUE, TRUE, StandardLines, d, << >>, << >>) :
        d \in UNION { [1..n -> ConflictRows] : n \in 1..MaxLines } }

InitConflict ==
    /\ test_rows = << >>
    /\ NothingRun
    /\ arg \in ConflictQuestions
    /\ ret = NoCall

SpecConflict == InitConflict /\ [][ApplyFeatures]_vars

\* the identifiers observed in a column across the records
Observed(question, col) == Range(Contributed(question, col))

\* the serving identifiers and the top-neighbor identifiers side by side: an
\* identifier seen in both columns is counted twice
ServingAndNeighbors(question) ==
    { <<"serving", p>> : p \in Observed(question, "pci") }
    \cup { <<"neighbor", p>> : p \in Observed(question, "n1") }

ResiduesCollide(counted) ==
    \E a, b \in counted : a # b /\ a[2] % 30 = b[2] % 30

Flagged == ret.called /\ ~IsNone(ret.features) /\ ret.features.has_pci_conflict

C28_SameCellTwice ==
    /\ ret.called /\ ~IsNone(ret.features)
    /\ Observed(arg, "pci") = {100}
    /\ Observed(arg, "n1") = {100}
    /\ ~ret.features.has_pci_conflict


\* C29: the fallback answer of every escalation task the solver creates is
\* one of the task's candidate options
C29_FallbackAmongCandidates ==
    \A k \in 1..Len(ai_tasks) : ai_tasks[k].rule_answer \in Range(ai_tasks[k].options)


\* the coordinator has taken a done future of the initial pass or of a retry
\* round
CompletionHandled ==
    /\ pc \in {"ai", "retry"}
    /\ pc' = pc
    /\ \E f \in finished : finished' = finished \ {f}

StatsIdentity ==
    /\ stats["ai_called"] = stats["ai_success"] + stats["ai_failed"]
    /\ stats["ai_failed"] >= 0
    /\ stats["ai_success"] = Cardinality(TaskIds(ai_tasks) \cap DOMAIN ai_results_cache)

StatsIdentityKept == CompletionHandled => StatsIdentity'

\* C30: after every escalation completion the coordinator handles, in the
\* initial pass and in every retry round, a worker that raised included,
\* ai_called = ai_success + ai_failed, ai_failed >= 0, and ai_success is the
\* number of cache entries written in this run
C30_StatsIdentity == [][StatsIdentityKept]_vars

=========================================================================
